---------------------------- MODULE Spec2Model ----------------------------
(***************************************************************************)
(* Nebula Talks backend: the presence logic of the /detect handler, the    *)
(* mark-spoken endpoint, the primary actuator client (MyCobotClient) and   *)
(* the multi-robot signal fan-out (RobotSignalService.send_signal).        *)
(*                                                                         *)
(* The backend runs on one cooperative event loop.  A request handler runs *)
(* without interruption until it reaches an await that suspends; another   *)
(* handler or background task may run there.  Every action below is one    *)
(* such run: from the start of a handler, or from the await it was         *)
(* suspended in, to its next suspending await or to its end.               *)
(***************************************************************************)
EXTENDS Integers, Sequences, FiniteSets, TLC

\* ------------------------------------------------------------------ bounds
\* Number of requests (detections and mark-spoken calls) of one run.
MaxOps == 5

\* ------------------------------------------------------------- identities
\* /detect requests that can be in flight at the same time.
Handlers == {1, 2}
\* The caller id of the /api/robot/signal endpoint.
ApiCaller == 0
Callers == Handlers \cup {ApiCaller}

RobotIds == {"A", "B", "C", "D"}
NoTarget == "None"

VARIABLES
    user_was_present,   \* main.py global
    user_spoken,        \* main.py global
    pc,                 \* per /detect handler: the await it is suspended in
    user_is_present,    \* per /detect handler: its local person_found
    req,                \* per /detect handler: index of its request in trace
    stale,              \* per /detect handler: the socket it is sending on
                        \* has been replaced by a reconnect
    connected,          \* mycobot_client.connected
    websocket,          \* mycobot_client.websocket: "None", "open", "closed"
    clientPc,           \* where MyCobotClient.connect() is suspended
    robots,             \* robot_service.robots: id -> "absent", "enabled", "disabled"
    fan,                \* per caller: the send_signal call it is awaiting
    report,             \* what the last send_signal call that returned did
    trace,              \* requests in arrival order: "true", "false", "mark"
    events,             \* presence events emitted, in order: <<request, event>>
    protocol,           \* robot_service.robots[id].protocol, "none" without id
    robots_file,        \* robots.json: the registry that was last saved
    websocket_connections,  \* robot_service cache: id -> socket number, 0 = no entry
    serial_connections, \* robot_service cache: id -> "none", "open"
    serial_ports,       \* per id: the Serial objects the service opened and
                        \* has not called close() on
    handle_to,          \* what each cached handle is connected to: per id the
                        \* url of its socket and the device of its port, and
                        \* the broker and credentials of mqtt_client
    mqtt_client,        \* robot_service.mqtt_client: "None", "connected", "unconnected"
    sockets,            \* the WebSocket connections the service has opened, in
                        \* order: [robot, st], st "open" or "closed"
    task,               \* per send_signal call and target: where its
                        \* _send_to_robot task is, and the config it was given
    disconnects,        \* per id: the _disconnect_robot task of remove_robot
    blocked,            \* the event loop thread is inside a synchronous
                        \* transport call that does not return
    mqtt_created,       \* MQTTClient objects constructed so far
    mqtt_connects,      \* mqtt_client.connect calls made so far
    calls,              \* send_signal calls started so far
    registry_ops,       \* add_robot and remove_robot calls so far
    signal,             \* the RobotSignal whose payload is built
    commands,           \* the commands mapping of the robot it is built for
    payload,            \* signal_data of _send_to_robot, or a marker
    added,              \* the last POST /api/robots request and its answer
    sends,              \* MyCobotClient.send_signal calls of the gesture
                        \* endpoints, in order, with what each returned
    written,            \* the messages those calls wrote to a socket
    received,           \* the inbound messages _keep_alive has handled
    accepting,          \* the myCobot endpoint accepts connections
    closing,            \* MyCobotClient.disconnect(): "none", "closing", "done"
    loop,               \* connect attempts and waits of connect(), in order
    celebrating,        \* MyCobotController.celebrating
    celebrate_stop_event,   \* MyCobotController.celebrate_stop_event is set
    workerPc,           \* where the thread running _celebrate_cycle is
    exitPc,             \* where stop_celebrating_and_exit is
    arm,                \* the motion commands sent to the arm, in order
    settings,           \* per id: the transport parameters of robots[id] (its
                        \* url, its serial_port, or its mqtt_broker,
                        \* mqtt_port, credentials and mqtt_topic)
    host,               \* mycobot_client.host
    port,               \* mycobot_client.port
    uri,                \* mycobot_client.uri
    startup,            \* "constructed": the module is imported and lifespan
                        \* has not run; "running": lifespan has started the
                        \* task of connect()
    server_in,          \* the last message a myCobot server received
    server_reply        \* what handle_websocket answered to it

serialVars == <<serial_connections, serial_ports>>
cacheVars == <<websocket_connections, serialVars, mqtt_client, sockets,
               mqtt_created, mqtt_connects, handle_to>>
registryVars == <<protocol, robots_file, disconnects, registry_ops>>
payloadVars == <<signal, commands, payload>>
controllerVars == <<celebrating, celebrate_stop_event, workerPc, exitPc, arm>>
endpointVars == <<host, port, uri, startup>>
serverVars == <<server_in, server_reply>>
deviceVars == <<controllerVars, settings, endpointVars, serverVars>>
adminVars == <<added, deviceVars>>
linkVars == <<sends, written, received, accepting, closing>>
dispatchVars == <<registryVars, cacheVars, task, blocked, calls, payloadVars,
                  adminVars, linkVars>>
serviceVars == <<dispatchVars, loop>>

vars == <<user_was_present, user_spoken, pc, user_is_present, req, stale,
          connected, websocket, clientPc, robots, fan, report, trace, events,
          serviceVars>>

presenceVars == <<user_was_present, user_spoken, pc, user_is_present, req,
                  trace, events>>

\* The variables of the backend process.
backendVars == <<user_was_present, user_spoken, pc, user_is_present, req,
                 stale, connected, websocket, clientPc, robots, fan, report,
                 trace, events, registryVars, cacheVars, task, blocked, calls,
                 payloadVars, added, linkVars, loop>>
SendAwaits == {"await_enter", "await_wave", "await_hold"}
clientVars == <<connected, websocket, clientPc>>
fanVars == <<fan, report>>

\* ------------------------------------------------------------ presence events
\* main.py 200: send_to_mycobot("go_to_celebrate_pose")
ENTERED == "ENTERED"
\* main.py 206-213: send_to_mycobot("wave_hand") and the user_left_after_speaking fan-out
LEFT_AFTER_SPEECH == "LEFT_AFTER_SPEECH"
\* main.py 220: send_to_mycobot("hold_and_home")
LEFT == "LEFT"

\* ------------------------------------------------------- MyCobotClient
\* Faulty variant: a call is let through whenever the client has a socket.
CanSendSocketOnly(cn, ws) == ws # "None"

\* mycobot_integration.py 97: the guard of send_signal, negated.
CanSend(cn, ws) == cn /\ ws # "None"

\* connect(), line 34-41: websockets.connect returned a socket.
ConnectSucceeds ==
    /\ clientPc = "connect"
    /\ websocket' = "open"
    /\ connected' = TRUE
    /\ clientPc' = "welcome"
    /\ stale' = [h \in Handlers |-> pc[h] \in SendAwaits]
    /\ UNCHANGED <<presenceVars, robots, dispatchVars, fanVars>>

\* Faulty variant: a refused connect is tried again without a wait.
ConnectRefusedRetriesAtOnce ==
    /\ clientPc = "connect"
    /\ clientPc' = "connect"
    /\ UNCHANGED <<stale, connected, websocket, presenceVars, robots,
                   dispatchVars, fanVars>>

\* connect(), line 50-53: ConnectionRefusedError; connected is not touched.
ConnectRefused ==
    /\ clientPc = "connect"
    /\ clientPc' = "sleep"
    /\ UNCHANGED <<stale, connected, websocket, presenceVars, robots,
                   dispatchVars, fanVars>>

\* Faulty variant: an exception other than ConnectionRefusedError leaves
\* connect(), and its task ends.
ConnectFailsEnds ==
    /\ clientPc = "connect"
    /\ connected' = FALSE
    /\ clientPc' = "stopped"
    /\ UNCHANGED <<stale, websocket, presenceVars, robots,
                   dispatchVars, fanVars>>

\* connect(), line 54-57: any other exception of websockets.connect.
ConnectFails ==
    /\ clientPc = "connect"
    /\ connected' = FALSE
    /\ clientPc' = "sleep"
    /\ UNCHANGED <<stale, websocket, presenceVars, robots,
                   dispatchVars, fanVars>>

\* connect(), line 44-48: the first message arrived; _keep_alive starts.
WelcomeReceived ==
    /\ clientPc = "welcome"
    /\ websocket = "open"
    /\ clientPc' = "keep_alive"
    /\ UNCHANGED <<stale, connected, websocket, presenceVars, robots,
                   dispatchVars, fanVars>>

\* connect(), line 44 and 54-57: recv raised (the connection closed before
\* any message).
WelcomeFails ==
    /\ clientPc = "welcome"
    /\ websocket' = "closed"
    /\ connected' = FALSE
    /\ clientPc' = "sleep"
    /\ UNCHANGED <<stale, presenceVars, robots, dispatchVars, fanVars>>

\* _keep_alive, line 68-73: the read raised; connect() loops at once.
KeepAliveRaises ==
    /\ clientPc = "keep_alive"
    /\ websocket' = "closed"
    /\ connected' = FALSE
    /\ clientPc' = "connect"
    /\ UNCHANGED <<stale, presenceVars, robots, dispatchVars, fanVars>>

\* _keep_alive, line 62: the message stream ended without an exception (a
\* normal close); no handler runs, connect() loops at once.
KeepAliveEnds ==
    /\ clientPc = "keep_alive"
    /\ websocket' = "closed"
    /\ clientPc' = "connect"
    /\ UNCHANGED <<stale, connected, presenceVars, robots,
                   dispatchVars, fanVars>>

\* connect(), line 53 and 57: asyncio.sleep(reconnect_interval) returned.
SleepDone ==
    /\ clientPc = "sleep"
    /\ clientPc' = "connect"
    /\ UNCHANGED <<stale, connected, websocket, presenceVars, robots,
                   dispatchVars, fanVars>>

ClientStep ==
    \/ ConnectSucceeds
    \/ ConnectRefused
    \/ ConnectFails
    \/ WelcomeReceived
    \/ WelcomeFails
    \/ KeepAliveRaises
    \/ KeepAliveEnds
    \/ SleepDone

\* A step of connect(), with no record kept of its attempts and waits.
ClientRuns == ClientStep /\ UNCHANGED loop

\* ------------------------- MyCobotClient: calls, inbound messages, shutdown
\* Calls of the gesture endpoints, inbound messages and loop events of one
\* run.
MaxSends == 2
MaxInbound == 2
MaxLoop == 6

\* Signal types of the gesture endpoints (MYCOBOT_GESTURES, line 140-147).
Gestures == {"wave", "home"}

\* What the myCobot server can send: text that is no JSON, JSON that is no
\* object (a list, a number, a string, null), and objects without a type,
\* with a type _handle_message does not know, or with one it logs.
Inbound == {"not_json", "not_object", "no_type", "unknown_type", "response",
            "connected", "error"}

\* Faulty variant: a failed write leaves the status as it was.
ConnectedAfterSendKept(ok, cn) == cn

\* send_signal, line 108-115: the status after the write; an exception of it
\* sets connected to False.
ConnectedAfterSend(ok, cn) == IF ok THEN cn ELSE FALSE

\* Faulty variant: a write can raise on a connection that stays open.
SocketAfterSendOpen(ok, ws) == ws

\* send_signal, line 108: websocket.send raises on a connection that is
\* closed or that the failed write closes (the message is a str, so no other
\* exception of send applies); the socket object stays in self.websocket.
SocketAfterSend(ok, ws) == IF ok THEN ws ELSE "closed"

\* send_signal, line 89-115, called through send_to_mycobot by
\* trigger_mycobot_gesture (main.py 377).  ok: the write succeeded, which it
\* can on an open socket only; a write that raises finds the connection
\* closed.  Nothing is kept of a call that returns False at line 97-99.
ClientSendSignal(sig, ok) ==
    /\ Len(sends) < MaxSends
    /\ IF ~CanSend(connected, websocket)
       THEN /\ sends' = Append(sends, [sig |-> sig, cn |-> connected,
                                       at |-> clientPc, result |-> FALSE])
            /\ UNCHANGED <<written, connected, websocket>>
       ELSE /\ ok => websocket = "open"
            /\ sends' = Append(sends, [sig |-> sig, cn |-> connected,
                                       at |-> clientPc, result |-> ok])
            /\ written' = IF ok
                          THEN Append(written, [sig |-> sig,
                                                call |-> Len(sends) + 1])
                          ELSE written
            /\ connected' = ConnectedAfterSend(ok, connected)
            /\ websocket' = SocketAfterSend(ok, websocket)
    /\ UNCHANGED <<clientPc, stale, presenceVars, robots, fanVars,
                   registryVars, cacheVars, task, blocked, calls, payloadVars,
                   adminVars, received, accepting, closing, loop>>

\* _keep_alive, line 64-67, and _handle_message, line 77: json.loads raises
\* JSONDecodeError for text that is no JSON, which is caught inside the loop;
\* data.get raises AttributeError for JSON that is no object, which is not.
HandleRaises(msg) == msg = "not_object"

\* _keep_alive, line 62-73: one inbound message.  An exception that leaves
\* the loop is caught at line 71-73: connected is set to False and
\* _keep_alive returns, so connect() loops at once; the socket is not closed.
KeepAliveReceives(msg) ==
    /\ clientPc = "keep_alive"
    /\ websocket = "open"
    /\ Len(received) < MaxInbound
    /\ received' = Append(received, msg)
    /\ IF HandleRaises(msg)
       THEN connected' = FALSE /\ clientPc' = "connect"
       ELSE UNCHANGED <<connected, clientPc>>
    /\ UNCHANGED <<websocket, stale, presenceVars, robots, fanVars,
                   registryVars, cacheVars, task, blocked, calls, payloadVars,
                   adminVars, sends, written, accepting, closing, loop>>

\* disconnect(), line 117-120, called by lifespan (main.py 150), up to the
\* await of close().  Without a socket it does nothing.  The task that runs
\* connect() is not cancelled.
Disconnect ==
    /\ closing = "none"
    /\ IF websocket = "None"
       THEN closing' = "done" /\ UNCHANGED websocket
       ELSE closing' = "closing" /\ websocket' = "closed"
    /\ UNCHANGED <<connected, clientPc, stale, presenceVars, robots, fanVars,
                   registryVars, cacheVars, task, blocked, calls, payloadVars,
                   adminVars, sends, written, received, accepting, loop>>

\* disconnect(), line 121-122: close() returned.
DisconnectResumes ==
    /\ closing = "closing"
    /\ closing' = "done"
    /\ connected' = FALSE
    /\ UNCHANGED <<websocket, clientPc, stale, presenceVars, robots, fanVars,
                   registryVars, cacheVars, task, blocked, calls, payloadVars,
                   adminVars, sends, written, received, accepting, loop>>

\* The myCobot server comes up: from now on it accepts connections.
EndpointAccepts ==
    /\ ~accepting
    /\ accepting' = TRUE
    /\ UNCHANGED <<clientVars, stale, presenceVars, robots, fanVars,
                   registryVars, cacheVars, task, blocked, calls, payloadVars,
                   adminVars, sends, written, received, closing, loop>>

\* A connect attempt that the endpoint refused, and a wait of
\* reconnect_interval that ended, each put on record.
RefusedAttempt ==
    /\ Len(loop) < MaxLoop
    /\ ConnectRefused
    /\ loop' = Append(loop, "attempt")

Waited ==
    /\ Len(loop) < MaxLoop
    /\ SleepDone
    /\ loop' = Append(loop, "wait")

\* ------------------------------------------------- RobotSignalService
\* What a connector call (_send_http, _send_websocket, _send_mqtt,
\* _send_serial) can do: return True, return False, or raise.
ConnectorOutcomes == {"ok", "false", "raise"}

IdleFan == [st |-> "idle", target |-> NoTarget, targets |-> {},
            out |-> [r \in RobotIds |-> "none"],
            res |-> [r \in RobotIds |-> "none"],
            att |-> [r \in RobotIds |-> 0]]

NoReport == [caller |-> -1, target |-> NoTarget, targets |-> {},
             out |-> [r \in RobotIds |-> "none"],
             res |-> [r \in RobotIds |-> "none"],
             att |-> [r \in RobotIds |-> 0],
             warned |-> FALSE, count |-> -1, ret |-> "none"]

\* Faulty variant: a robot_id selects its robot only when that robot is
\* enabled.
TargetRobotsEnabledOnly(target) ==
    IF target # NoTarget
    THEN {r \in {target} : robots[r] = "enabled"}
    ELSE {r \in RobotIds : robots[r] = "enabled"}

\* send_signal, line 161-163: the robots a call is for.  With a robot_id the
\* lookup self.robots[robot_id] ignores the enabled flag.
TargetRobots(target) ==
    IF target # NoTarget
    THEN {target}
    ELSE {r \in RobotIds : robots[r] = "enabled"}

\* send_signal, line 161: self.robots[robot_id] raises KeyError for an id the
\* registry does not hold.
LookupRaises(target) == target # NoTarget /\ robots[target] = "absent"

\* _send_to_robot, line 182-204: the connector's boolean, False when anything
\* raised.
SendToRobotResult(outcome) == outcome = "ok"

\* Faulty variant: a gather that returns as soon as one task has failed.
GatherFailFast(f) ==
    \/ \A r \in f.targets : f.res[r] # "pending"
    \/ \E r \in f.targets : f.res[r] = "false"

\* send_signal, line 175: gather(..., return_exceptions=True) returns when
\* every task has ended, whatever each returned.
GatherComplete(f) == \A r \in f.targets : f.res[r] # "pending"

\* Faulty variant: every result is counted, not only the True ones.
SuccessCountAll(f) == Cardinality(f.targets)

\* send_signal, line 177: the number of results that are True.
SuccessCount(f) == Cardinality({r \in f.targets : f.res[r] = "true"})

\* send_signal, line 161-173, up to the await of gather.  Gives the new
\* <<fan, report>> of caller c.
SendSignalStart(c, target, f, rep) ==
    IF LookupRaises(target)
    THEN <<f, [NoReport EXCEPT !.caller = c, !.target = target,
                               !.ret = "KeyError"]>>
    ELSE IF TargetRobots(target) = {}
    THEN <<f, [NoReport EXCEPT !.caller = c, !.target = target,
                               !.warned = TRUE, !.ret = "None"]>>
    ELSE <<[f EXCEPT ![c] =
               [st |-> "gather", target |-> target,
                targets |-> TargetRobots(target),
                out |-> [r \in RobotIds |-> "none"],
                res |-> [r \in RobotIds |->
                           IF r \in TargetRobots(target) THEN "pending"
                           ELSE "none"],
                att |-> [r \in RobotIds |-> 0]]],
           rep>>

\* send_signal, line 175-178: gather returned; the count is logged and the
\* call returns None.
SendSignalReport(c, f) ==
    [caller |-> c, target |-> f.target, targets |-> f.targets,
     out |-> f.out, res |-> f.res,
     att |-> f.att, warned |-> FALSE, count |-> SuccessCount(f),
     ret |-> "None"]

\* One task of the gather: _send_to_robot(robot, signal), line 180-204.
SendToRobot(c, r, outcome) ==
    /\ fan[c].st = "gather"
    /\ r \in fan[c].targets
    /\ fan[c].res[r] = "pending"
    /\ fan' = [fan EXCEPT ![c].out[r] = outcome,
                          ![c].res[r] =
                 IF SendToRobotResult(outcome) THEN "true" ELSE "false",
                          ![c].att[r] = @ + 1]
    /\ UNCHANGED <<report, presenceVars, stale, clientVars, robots,
                   serviceVars>>

\* trigger_robot_signal, main.py 238-253, up to the await inside send_signal.
\* A KeyError of the lookup leaves the handler (FastAPI answers 500).
TriggerRobotSignal(target) ==
    /\ fan[ApiCaller].st = "idle"
    /\ LET next == SendSignalStart(ApiCaller, target, fan, report)
       IN  /\ fan' = next[1]
           /\ report' = next[2]
    /\ UNCHANGED <<presenceVars, stale, clientVars, robots, serviceVars>>

\* trigger_robot_signal resumes when gather has returned, and answers.
TriggerRobotSignalDone ==
    /\ fan[ApiCaller].st = "gather"
    /\ GatherComplete(fan[ApiCaller])
    /\ report' = SendSignalReport(ApiCaller, fan[ApiCaller])
    /\ fan' = [fan EXCEPT ![ApiCaller] = IdleFan]
    /\ UNCHANGED <<presenceVars, stale, clientVars, robots, serviceVars>>

\* ------------------------------------- RobotSignalService: the connectors
Protocols == {"http", "websocket", "mqtt", "serial"}

\* The robot ids, callers and counts of the connector specifications.
ServiceRobots == {"A", "B"}
\* The /detect handler whose fan-out (main.py 213) runs next to the calls of
\* /api/robot/signal.
FanoutHandler == 1
ServiceCallers == {ApiCaller, FanoutHandler}
MaxCalls == 2
MaxRegistryOps == 2
MaxSockets == 2

\* The variables no action of the service touches.
otherVars == <<presenceVars, stale, clientVars, payloadVars, adminVars,
               linkVars, loop>>

\* The cache after the handle of robot r for one protocol was stored
\* (line 237, 263, 289), connected to e, or deleted (e = "none").  The MQTT
\* client is one for all robots.
HandleTo(h, proto, r, e) ==
    IF proto = "mqtt" THEN [h EXCEPT !.mqtt = e]
    ELSE [h EXCEPT ![proto][r] = e]

\* The _send_to_robot task of one target: pc is where it is ("none": no
\* task, "ready": created by gather and not started, "http_post",
\* "ws_connect", "ws_send": suspended in that await, "hung": suspended in an
\* await that never returns, "in_call": inside a synchronous call that never
\* returns, "done"), proto the protocol of the RobotConfig it was given, ws
\* its local socket, and enabled whether the registry held the robot as
\* enabled when send_signal started.
IdleTask == [pc |-> "none", proto |-> "none", ws |-> 0, enabled |-> FALSE,
             params |-> "none"]
IdleTasks == [r \in RobotIds |-> IdleTask]

\* Faulty variant: an exception of building the payload is not caught and
\* becomes the task's result.
AttemptResultPropagates(out) ==
    IF out = "ok" THEN "true"
    ELSE IF out = "bad_override" THEN "exception" ELSE "false"

\* _send_to_robot, line 182-204: what the task returns to gather.  out names
\* how the attempt ended: "ok"; "bad_override": line 184-186 raised;
\* "missing_param": the connector returned False before any transport call;
\* "transport_failed": connecting or sending raised, or the reply of an HTTP
\* robot was not 2xx.
AttemptResult(out) == IF SendToRobotResult(out) THEN "true" ELSE "false"

\* Faulty variant: the tasks are taken from the registry as it is now.
TaskPendingLive(c, r) == robots[r] = "enabled" /\ fan[c].att[r] = 0

\* send_signal, line 171-175: the tasks are those built from target_robots.
TaskPending(c, r) == task[c][r].pc = "ready"

\* The task of target r of call c has been created and can start.
Pending(c, r) == ~blocked /\ fan[c].st = "gather" /\ TaskPending(c, r)

Begun(f, c, r) == [f EXCEPT ![c].att[r] = @ + 1]
Ended(f, c, r, out) ==
    [f EXCEPT ![c].out[r] = out, ![c].res[r] = AttemptResult(out)]
TaskAt(t, c, r, at) == [t EXCEPT ![c][r].pc = at, ![c][r].ws = 0]

\* send_signal, line 153-175, called by trigger_robot_signal (main.py 252)
\* or by detect_person (main.py 213), up to the await of gather.
SendSignal(c, target) ==
    /\ ~blocked
    /\ fan[c].st = "idle"
    /\ calls < MaxCalls
    /\ calls' = calls + 1
    /\ LET next == SendSignalStart(c, target, fan, report)
       IN  /\ fan' = next[1]
           /\ report' = next[2]
           /\ task' = [task EXCEPT ![c] =
                 [r \in RobotIds |->
                    IF next[1][c].st = "gather"
                    THEN [pc |-> IF r \in next[1][c].targets
                                 THEN "ready" ELSE "none",
                          proto |-> protocol[r], ws |-> 0,
                          enabled |-> robots[r] = "enabled",
                          params |-> settings[r]]
                    ELSE IdleTask]]
    /\ UNCHANGED <<robots, registryVars, cacheVars, blocked, otherVars>>

\* send_signal, line 175-178: gather returned; the caller resumes.
SendSignalReturns(c) ==
    /\ ~blocked
    /\ fan[c].st = "gather"
    /\ GatherComplete(fan[c])
    /\ report' = SendSignalReport(c, fan[c])
    /\ fan' = [fan EXCEPT ![c] = IdleFan]
    /\ task' = [task EXCEPT ![c] = IdleTasks]
    /\ UNCHANGED <<robots, registryVars, cacheVars, blocked, calls, otherVars>>

\* _send_to_robot, line 184-186 and 202-204: the robot's override for the
\* signal type is no mapping (or commands is none); the exception is caught.
SendToRobotFails(c, r) ==
    /\ Pending(c, r)
    /\ fan' = Ended(Begun(fan, c, r), c, r, "bad_override")
    /\ task' = TaskAt(task, c, r, "done")
    /\ UNCHANGED <<report, robots, registryVars, cacheVars, blocked, calls,
                   otherVars>>

\* _send_http, line 206-217, up to the await of the POST.  configured: the
\* robot has a url.
SendHttp(c, r, configured) ==
    /\ Pending(c, r)
    /\ task[c][r].proto = "http"
    /\ IF configured
       THEN /\ fan' = Begun(fan, c, r)
            /\ task' = TaskAt(task, c, r, "http_post")
       ELSE /\ fan' = Ended(Begun(fan, c, r), c, r, "missing_param")
            /\ task' = TaskAt(task, c, r, "done")
    /\ UNCHANGED <<report, robots, registryVars, cacheVars, blocked, calls,
                   otherVars>>

\* _send_http, line 213-223: the POST ended, within the 5 s of the client's
\* timeout (line 76): a 2xx reply, another reply, or a transport error.
HttpReplied(c, r, reply) ==
    /\ ~blocked
    /\ fan[c].st = "gather"
    /\ task[c][r].pc = "http_post"
    /\ fan' = Ended(fan, c, r, IF reply = "2xx" THEN "ok"
                               ELSE "transport_failed")
    /\ task' = TaskAt(task, c, r, "done")
    /\ UNCHANGED <<report, robots, registryVars, cacheVars, blocked, calls,
                   otherVars>>

\* Faulty variant: every delivery connects, whatever the cache holds.
SendWebsocketAlwaysConnects(c, r, configured) ==
    /\ Pending(c, r)
    /\ task[c][r].proto = "websocket"
    /\ IF ~configured
       THEN /\ fan' = Ended(Begun(fan, c, r), c, r, "missing_param")
            /\ task' = TaskAt(task, c, r, "done")
       ELSE /\ fan' = Begun(fan, c, r)
            /\ task' = TaskAt(task, c, r, "ws_connect")
    /\ UNCHANGED <<report, robots, registryVars, cacheVars, blocked, calls,
                   otherVars>>

\* _send_websocket, line 225-241, up to its first await: the connect when
\* the cache has no socket for the robot, the send on the cached one
\* otherwise.
SendWebsocket(c, r, configured) ==
    /\ Pending(c, r)
    /\ task[c][r].proto = "websocket"
    /\ IF ~configured
       THEN /\ fan' = Ended(Begun(fan, c, r), c, r, "missing_param")
            /\ task' = TaskAt(task, c, r, "done")
       ELSE /\ fan' = Begun(fan, c, r)
            /\ task' = IF websocket_connections[r] = 0
                       THEN TaskAt(task, c, r, "ws_connect")
                       ELSE [task EXCEPT ![c][r].pc = "ws_send",
                                         ![c][r].ws = websocket_connections[r]]
    /\ UNCHANGED <<report, robots, registryVars, cacheVars, blocked, calls,
                   otherVars>>

\* _send_websocket, line 236-250: websockets.connect returned a socket, which
\* is cached and sent on (ok), raised, or does not return (never).
WebsocketConnects(c, r, outcome) ==
    /\ ~blocked
    /\ fan[c].st = "gather"
    /\ task[c][r].pc = "ws_connect"
    /\ CASE outcome = "ok" ->
              /\ Len(sockets) < MaxSockets
              /\ sockets' = Append(sockets, [robot |-> r, st |-> "open"])
              /\ websocket_connections' =
                    [websocket_connections EXCEPT ![r] = Len(sockets) + 1]
              /\ handle_to' = HandleTo(handle_to, "websocket", r,
                                       task[c][r].params)
              /\ task' = [task EXCEPT ![c][r].pc = "ws_send",
                                      ![c][r].ws = Len(sockets) + 1]
              /\ UNCHANGED fan
         [] outcome = "raise" ->
              /\ websocket_connections' =
                    [websocket_connections EXCEPT ![r] = 0]
              /\ handle_to' = HandleTo(handle_to, "websocket", r, "none")
              /\ fan' = Ended(fan, c, r, "transport_failed")
              /\ task' = TaskAt(task, c, r, "done")
              /\ UNCHANGED sockets
         [] OTHER ->
              /\ task' = TaskAt(task, c, r, "hung")
              /\ UNCHANGED <<fan, sockets, websocket_connections, handle_to>>
    /\ UNCHANGED <<report, robots, registryVars, serialVars,
                   mqtt_client, mqtt_created, mqtt_connects, blocked, calls,
                   otherVars>>

\* _send_websocket, line 241-250: ws.send returned (ok), raised because the
\* connection is closed, or does not return (never).
WebsocketSends(c, r, outcome) ==
    /\ ~blocked
    /\ fan[c].st = "gather"
    /\ task[c][r].pc = "ws_send"
    /\ CASE outcome = "ok" ->
              /\ sockets[task[c][r].ws].st = "open"
              /\ fan' = Ended(fan, c, r, "ok")
              /\ task' = TaskAt(task, c, r, "done")
              /\ UNCHANGED <<sockets, websocket_connections, handle_to>>
         [] outcome = "raise" ->
              /\ sockets' = [sockets EXCEPT ![task[c][r].ws].st = "closed"]
              /\ websocket_connections' =
                    [websocket_connections EXCEPT ![r] = 0]
              /\ handle_to' = HandleTo(handle_to, "websocket", r, "none")
              /\ fan' = Ended(fan, c, r, "transport_failed")
              /\ task' = TaskAt(task, c, r, "done")
         [] OTHER ->
              /\ task' = TaskAt(task, c, r, "hung")
              /\ UNCHANGED <<fan, sockets, websocket_connections, handle_to>>
    /\ UNCHANGED <<report, robots, registryVars, serialVars,
                   mqtt_client, mqtt_created, mqtt_connects, blocked, calls,
                   otherVars>>

\* Faulty variant: every delivery makes and connects a client.
MqttClientMissingAlways(client) == TRUE

\* _send_mqtt, line 259: self.mqtt_client is None.
MqttClientMissing(client) == client = "None"

\* _send_mqtt, line 252-273: the whole connector, which has no await.
\* configured: the robot has a broker and a topic.  conn: what connect does
\* when it is called (ok, raise, never returns); pub: what publish does.  The
\* client is stored before connect is called and stays stored when connect
\* raises; publish on it does not connect.
SendMqtt(c, r, configured, conn, pub) ==
    /\ Pending(c, r)
    /\ task[c][r].proto = "mqtt"
    /\ IF ~configured
       THEN /\ fan' = Ended(Begun(fan, c, r), c, r, "missing_param")
            /\ task' = TaskAt(task, c, r, "done")
            /\ UNCHANGED <<mqtt_client, mqtt_created, mqtt_connects, blocked,
                           handle_to>>
       ELSE IF MqttClientMissing(mqtt_client)
       THEN /\ mqtt_created' = mqtt_created + 1
            /\ mqtt_connects' = mqtt_connects + 1
            /\ handle_to' = HandleTo(handle_to, "mqtt", r, task[c][r].params)
            /\ CASE conn = "ok" ->
                      /\ mqtt_client' = "connected"
                      /\ fan' = Ended(Begun(fan, c, r), c, r,
                                      IF pub = "ok" THEN "ok"
                                      ELSE "transport_failed")
                      /\ task' = TaskAt(task, c, r, "done")
                      /\ UNCHANGED blocked
                 [] conn = "raise" ->
                      /\ mqtt_client' = "unconnected"
                      /\ fan' = Ended(Begun(fan, c, r), c, r,
                                      "transport_failed")
                      /\ task' = TaskAt(task, c, r, "done")
                      /\ UNCHANGED blocked
                 [] OTHER ->
                      /\ mqtt_client' = "unconnected"
                      /\ fan' = Begun(fan, c, r)
                      /\ task' = TaskAt(task, c, r, "in_call")
                      /\ blocked' = TRUE
       ELSE /\ fan' = Ended(Begun(fan, c, r), c, r,
                            IF pub = "ok" THEN "ok"
                            ELSE "transport_failed")
            /\ task' = TaskAt(task, c, r, "done")
            /\ UNCHANGED <<mqtt_client, mqtt_created, mqtt_connects, blocked,
                           handle_to>>
    /\ UNCHANGED <<report, robots, registryVars, websocket_connections,
                   serialVars, sockets, calls, otherVars>>

\* serial.Serial(...), line 284-288: one more Serial object is open.
PortOpened(ports, r) == [ports EXCEPT ![r] = @ + 1]

\* ser.close(), line 321: the cached Serial object is closed.
PortClosed(ports, r) == [ports EXCEPT ![r] = IF @ > 0 THEN @ - 1 ELSE 0]

\* _send_serial, line 275-305: the whole connector, which has no await.
\* configured: the robot has a serial_port.  open: what serial.Serial does
\* when the cache has no port; write: what write and flush do (ok, raise,
\* never return: the port is opened without a write timeout).
SendSerial(c, r, configured, open, write) ==
    /\ Pending(c, r)
    /\ task[c][r].proto = "serial"
    /\ IF ~configured
       THEN /\ fan' = Ended(Begun(fan, c, r), c, r, "missing_param")
            /\ task' = TaskAt(task, c, r, "done")
            /\ UNCHANGED <<serialVars, blocked, handle_to>>
       ELSE IF serial_connections[r] = "none" /\ open = "raise"
       THEN /\ fan' = Ended(Begun(fan, c, r), c, r, "transport_failed")
            /\ task' = TaskAt(task, c, r, "done")
            /\ UNCHANGED <<serialVars, blocked, handle_to>>
       ELSE /\ serial_ports' = IF serial_connections[r] = "none"
                               THEN PortOpened(serial_ports, r)
                               ELSE serial_ports
            /\ handle_to' =
                  IF write = "raise"
                  THEN HandleTo(handle_to, "serial", r, "none")
                  ELSE IF serial_connections[r] = "none"
                  THEN HandleTo(handle_to, "serial", r, task[c][r].params)
                  ELSE handle_to
            /\ CASE write = "ok" ->
                   /\ serial_connections' =
                         [serial_connections EXCEPT ![r] = "open"]
                   /\ fan' = Ended(Begun(fan, c, r), c, r, "ok")
                   /\ task' = TaskAt(task, c, r, "done")
                   /\ UNCHANGED blocked
              [] write = "raise" ->
                   /\ serial_connections' =
                         [serial_connections EXCEPT ![r] = "none"]
                   /\ fan' = Ended(Begun(fan, c, r), c, r, "transport_failed")
                   /\ task' = TaskAt(task, c, r, "done")
                   /\ UNCHANGED blocked
              [] OTHER ->
                   /\ serial_connections' =
                         [serial_connections EXCEPT ![r] = "open"]
                   /\ fan' = Begun(fan, c, r)
                   /\ task' = TaskAt(task, c, r, "in_call")
                   /\ blocked' = TRUE
    /\ UNCHANGED <<report, robots, registryVars, websocket_connections,
                   mqtt_client, sockets, mqtt_created, mqtt_connects, calls,
                   otherVars>>

\* ----------------------------------- RobotSignalService: the registry
\* save_robots, line 112-136: the file holds the registry, unless writing it
\* raised (saved = FALSE: open failed and the file is as it was).
SavedFile(saved, rs, ps) ==
    IF saved THEN [robots |-> rs, protocol |-> ps] ELSE robots_file

\* add_robot, main.py 290-310 and robot_signal.py 138-142: the config is
\* stored under its id, replacing the one stored there, and the registry is
\* saved.
AddRobot(r, proto, enabled, saved) ==
    /\ ~blocked
    /\ registry_ops < MaxRegistryOps
    /\ registry_ops' = registry_ops + 1
    /\ robots' = [robots EXCEPT ![r] = IF enabled THEN "enabled"
                                       ELSE "disabled"]
    /\ protocol' = [protocol EXCEPT ![r] = proto]
    /\ robots_file' = SavedFile(saved, robots', protocol')
    /\ UNCHANGED <<disconnects, cacheVars, task, blocked, calls, fanVars,
                   otherVars>>

\* delete_robot, main.py 313-319 and remove_robot, robot_signal.py 144-151:
\* the disconnect task is created, then the config is deleted and the
\* registry saved.  One disconnect task per id at a time.
RemoveRobot(r, saved) ==
    /\ ~blocked
    /\ registry_ops < MaxRegistryOps
    /\ robots[r] # "absent"
    /\ disconnects[r] \notin {"scheduled", "closing"}
    /\ registry_ops' = registry_ops + 1
    /\ disconnects' = [disconnects EXCEPT ![r] = "scheduled"]
    /\ robots' = [robots EXCEPT ![r] = "absent"]
    /\ protocol' = [protocol EXCEPT ![r] = "none"]
    /\ robots_file' = SavedFile(saved, robots', protocol')
    /\ UNCHANGED <<cacheVars, task, blocked, calls, fanVars, otherVars>>

\* _disconnect_robot, line 307-325, from the start of the task to its await
\* of close() or to its end.  It returns at once when the registry has no
\* robot of that id.
DisconnectRobot(r) ==
    /\ ~blocked
    /\ disconnects[r] = "scheduled"
    /\ IF robots[r] = "absent"
       THEN /\ disconnects' = [disconnects EXCEPT ![r] = "ran"]
            /\ UNCHANGED <<sockets, serialVars, handle_to>>
       ELSE IF websocket_connections[r] # 0
       THEN /\ sockets' = [sockets EXCEPT
                              ![websocket_connections[r]].st = "closed"]
            /\ disconnects' = [disconnects EXCEPT ![r] = "closing"]
            /\ UNCHANGED <<serialVars, handle_to>>
       ELSE /\ serial_connections' = [serial_connections EXCEPT ![r] = "none"]
            /\ handle_to' = HandleTo(handle_to, "serial", r, "none")
            /\ serial_ports' = IF serial_connections[r] = "open"
                               THEN PortClosed(serial_ports, r)
                               ELSE serial_ports
            /\ disconnects' = [disconnects EXCEPT ![r] = "ran"]
            /\ UNCHANGED sockets
    /\ UNCHANGED <<robots, protocol, robots_file, registry_ops,
                   websocket_connections, mqtt_client, mqtt_created,
                   mqtt_connects, task, blocked, calls, fanVars, otherVars>>

\* _disconnect_robot, line 318-325, after close() returned: the cache entry
\* is deleted, which raises KeyError and ends the task when a failed send has
\* deleted it meanwhile; then the serial port is closed and deleted.
DisconnectRobotResumes(r) ==
    /\ ~blocked
    /\ disconnects[r] = "closing"
    /\ disconnects' = [disconnects EXCEPT ![r] = "ran"]
    /\ IF websocket_connections[r] = 0
       THEN UNCHANGED <<websocket_connections, serialVars, handle_to>>
       ELSE /\ websocket_connections' =
                  [websocket_connections EXCEPT ![r] = 0]
            /\ handle_to' = HandleTo(HandleTo(handle_to, "websocket", r,
                                               "none"),
                                      "serial", r, "none")
            /\ serial_connections' = [serial_connections EXCEPT ![r] = "none"]
            /\ serial_ports' = IF serial_connections[r] = "open"
                               THEN PortClosed(serial_ports, r)
                               ELSE serial_ports
    /\ UNCHANGED <<robots, protocol, robots_file, registry_ops, sockets,
                   mqtt_client, mqtt_created, mqtt_connects, task, blocked,
                   calls, fanVars, otherVars>>

\* What a replaced configuration can give as its url or serial_port.
NewSettings == {"X", "Y"}

\* add_robot, line 138-142, called by POST /api/robots (main.py 290-310) with
\* a configuration for an id the registry holds: same protocol, enabled, and
\* e as its url or serial_port.  The entry of self.robots is replaced and the
\* registry saved; no cache is looked at.
ReplaceRobot(r, e, saved) ==
    /\ ~blocked
    /\ registry_ops < MaxRegistryOps
    /\ robots[r] # "absent"
    /\ registry_ops' = registry_ops + 1
    /\ robots' = [robots EXCEPT ![r] = "enabled"]
    /\ settings' = [settings EXCEPT ![r] = e]
    /\ robots_file' = SavedFile(saved, robots', protocol)
    /\ UNCHANGED <<protocol, disconnects, cacheVars, task, blocked, calls,
                   fanVars, presenceVars, stale, clientVars, payloadVars,
                   added, linkVars, loop, controllerVars, endpointVars,
                   serverVars>>

\* ------------------------------------------ the robot endpoints of the API
\* What a body of POST /api/robots can give as its protocol: the value of a
\* RobotProtocol, or a string that is none.
RequestProtocols == Protocols \cup {"unknown"}

\* main.py 296: RobotProtocol(robot["protocol"]) raises ValueError for a
\* string that is no protocol's value.  Nothing else of the body is looked
\* at: url, mqtt_broker, mqtt_topic and serial_port are read with .get.
ProtocolRaises(proto) == proto \notin Protocols

\* POST /api/robots, main.py 290-310, with add_robot and save_robots,
\* robot_signal.py 112-142.  complete: the body has the field its protocol
\* requires; saved: robots.json could be written.  An exception (ValueError
\* of line 296, or the one of save_robots, raised after the registry was
\* changed) leaves the handler and FastAPI answers 500.
PostRobot(r, proto, complete, enabled, saved) ==
    /\ ~blocked
    /\ registry_ops < MaxRegistryOps
    /\ registry_ops' = registry_ops + 1
    /\ IF ProtocolRaises(proto)
       THEN /\ added' = [id |-> r, protocol |-> proto, complete |-> complete,
                         status |-> 500, n |-> registry_ops']
            /\ UNCHANGED <<robots, protocol, robots_file>>
       ELSE /\ robots' = [robots EXCEPT ![r] = IF enabled THEN "enabled"
                                               ELSE "disabled"]
            /\ protocol' = [protocol EXCEPT ![r] = proto]
            /\ robots_file' = SavedFile(saved, robots', protocol')
            /\ added' = [id |-> r, protocol |-> proto, complete |-> complete,
                         status |-> IF saved THEN 200 ELSE 500,
                         n |-> registry_ops']
    /\ UNCHANGED <<disconnects, cacheVars, task, blocked, calls, fanVars,
                   presenceVars, stale, clientVars, payloadVars, linkVars,
                   loop, deviceVars>>

\* ------------------------------------------------- the payload of a signal
\* A JSON value of a payload: a string, None, or a mapping, whose items are
\* its <<key, value>> pairs in insertion order (a Python dict).
Str(x) == [kind |-> "str", s |-> x, items |-> <<>>]
Map(its) == [kind |-> "dict", s |-> "", items |-> its]
PyNone == [kind |-> "None", s |-> "", items |-> <<>>]
\* The TypeError of unpacking something that is no mapping.
Raised == [kind |-> "TypeError", s |-> "", items |-> <<>>]
\* No payload has been built yet.
NotBuilt == [kind |-> "not built", s |-> "", items |-> <<>>]

Keys(d) == {d.items[i][1] : i \in 1..Len(d.items)}

\* dict.get(k): the value stored under k, None without it.
DictGet(d, k) ==
    IF k \in Keys(d)
    THEN d.items[CHOOSE i \in 1..Len(d.items) : d.items[i][1] = k][2]
    ELSE PyNone

\* d[k] = v: replaces the value of a key the dict holds, appends a new key.
DictSet(d, k, v) ==
    IF k \in Keys(d)
    THEN Map([i \in 1..Len(d.items) |->
                IF d.items[i][1] = k THEN <<k, v>> ELSE d.items[i]])
    ELSE Map(Append(d.items, <<k, v>>))

\* The items of a mapping stored into d one after the other.
RECURSIVE DictUpdate(_, _)
DictUpdate(d, its) ==
    IF its = <<>>
    THEN d
    ELSE DictUpdate(DictSet(d, Head(its)[1], Head(its)[2]), Tail(its))

\* Faulty variant: the default fields win over the override.
UnpackDefaultsWin(a, b) == DictUpdate(DictUpdate(Map(<<>>), b.items), a.items)

\* _send_to_robot, line 186: {**a, **b}, the items of a and then those of b.
Unpack(a, b) == DictUpdate(DictUpdate(Map(<<>>), a.items), b.items)

\* datetime.isoformat() of the two instants a signal is created at.
isoformat(t) ==
    IF t = 1 THEN "2025-01-01T00:00:01" ELSE "2025-01-01T00:00:02"

\* RobotSignal.to_dict, line 63-68.
to_dict(sig) ==
    Map(<< <<"signalType", Str(sig.signal_type)>>,
           <<"timestamp", Str(isoformat(sig.timestamp))>>,
           <<"data", sig.data>> >>)

\* The truth value Python gives a JSON value in "if custom_command:".
Truthy(v) ==
    CASE v.kind = "None" -> FALSE
      [] v.kind = "dict" -> v.items # <<>>
      [] v.kind = "str" -> v.s # ""
      [] OTHER -> TRUE

\* _send_to_robot, line 184-188: signal_data.  Unpacking a truthy override
\* that is no mapping raises TypeError.
SignalData(sig, cmds) ==
    LET custom_command == DictGet(cmds, sig.signal_type)
    IN  IF Truthy(custom_command)
        THEN IF custom_command.kind = "dict"
             THEN Unpack(to_dict(sig), custom_command)
             ELSE Raised
        ELSE to_dict(sig)

\* The signals, overrides and commands mappings payloads are built from.
SignalTypes == {"wave_hand", "user_left_after_speaking"}
Timestamps == {1, 2}
SignalDatas ==
    {Map(<<>>),
     Map(<< <<"confidence", Str("0.9")>>, <<"mode", Str("auto")>> >>)}
Signals == [signal_type : SignalTypes, timestamp : Timestamps,
            data : SignalDatas]
Overrides ==
    {Map(<<>>),
     Map(<< <<"speed", Str("fast")>> >>),
     Map(<< <<"data", Map(<< <<"mode", Str("slow")>> >>)>> >>),
     Map(<< <<"speed", Str("fast")>>, <<"signalType", Str("custom")>> >>),
     Str("go"),
     Str("")}
CommandMaps ==
    {Map(<<>>)}
    \cup {Map(<< <<t, o>> >>) : t \in SignalTypes, o \in Overrides}
    \cup {Map(<< <<"wave_hand", o1>>, <<"user_left_after_speaking", o2>> >>) :
            o1 \in Overrides, o2 \in Overrides}

\* _send_to_robot, line 182-188, for one signal and one robot.
BuildPayload ==
    /\ payload = NotBuilt
    /\ payload' = SignalData(signal, commands)
    /\ UNCHANGED <<presenceVars, stale, clientVars, robots, fanVars,
                   registryVars, cacheVars, task, blocked, calls, signal,
                   commands, adminVars, linkVars, loop>>

\* ------------------------------------------------------ /detect handler
\* Faulty variant: level-triggered, the previous value of present is not read.
EnteredEdgeLevel(was, d) == d

\* main.py 197: the person entered the frame.
EnteredEdge(was, d) == ~was /\ d

\* Faulty variant: the spoken flag is not read.
LeftAfterSpeechEdgeNoSpoken(was, spoken, d) == was /\ ~d

\* main.py 203: the person left the frame after speaking.
LeftAfterSpeechEdge(was, spoken, d) == was /\ spoken /\ ~d

\* Faulty variant: the detection of the current frame is not read.
LeftEdgeNoDetected(was, d) == was

\* Faulty variant: level-triggered, the previous value of present is not read.
LeftEdgeLevel(was, d) == ~d

\* main.py 218: the person left the frame, with or without speaking.
LeftEdge(was, d) == was /\ ~d

\* The globals and client fields a run of the handler has written so far.
Now == [ev |-> events, sp |-> user_spoken, cn |-> connected,
        ws |-> websocket, fan |-> fan, rep |-> report]

Emit(st, n, e) == [st EXCEPT !.ev = Append(@, <<n, e>>)]

Commit(st) ==
    /\ events' = st.ev
    /\ user_spoken' = st.sp
    /\ connected' = st.cn
    /\ websocket' = st.ws
    /\ fan' = st.fan
    /\ report' = st.rep

\* The handler suspends in an await; n is its request and d its person_found.
Suspend(h, at, n, d, st) ==
    /\ pc' = [pc EXCEPT ![h] = at]
    /\ req' = [req EXCEPT ![h] = n]
    /\ user_is_present' = [user_is_present EXCEPT ![h] = d]
    /\ stale' = [stale EXCEPT ![h] = FALSE]
    /\ UNCHANGED user_was_present
    /\ Commit(st)

\* Faulty variant: present is updated only when the actuator is connected.
FinishIfConnected(h, d, st) ==
    /\ pc' = [pc EXCEPT ![h] = "idle"]
    /\ req' = [req EXCEPT ![h] = 0]
    /\ user_is_present' = [user_is_present EXCEPT ![h] = FALSE]
    /\ stale' = [stale EXCEPT ![h] = FALSE]
    /\ user_was_present' = (IF st.cn THEN d ELSE user_was_present)
    /\ Commit(st)

\* main.py 222-232: user_was_present = user_is_present, and the response.
Finish(h, d, st) ==
    /\ pc' = [pc EXCEPT ![h] = "idle"]
    /\ req' = [req EXCEPT ![h] = 0]
    /\ user_is_present' = [user_is_present EXCEPT ![h] = FALSE]
    /\ stale' = [stale EXCEPT ![h] = FALSE]
    /\ user_was_present' = d
    /\ Commit(st)

\* main.py 218-220, then 222.
HoldStage(h, n, d, st) ==
    IF LeftEdge(user_was_present, d)
    THEN IF CanSend(st.cn, st.ws)
         THEN Suspend(h, "await_hold", n, d, Emit(st, n, LEFT))
         ELSE Finish(h, d, Emit(st, n, LEFT))
    ELSE Finish(h, d, st)

\* Faulty variant: user_spoken is not reset.
ResetStageKeepsSpoken(h, n, d, st) == HoldStage(h, n, d, st)

\* main.py 215: user_spoken = False, after send_signal returned.
ResetStage(h, n, d, st) == HoldStage(h, n, d, [st EXCEPT !.sp = FALSE])

\* main.py 209-213: the fan-out to the other robots.  send_signal returns
\* without suspending when there is no enabled robot.
FanoutStage(h, n, d, st) ==
    LET next == SendSignalStart(h, NoTarget, st.fan, st.rep)
        st1 == [st EXCEPT !.fan = next[1], !.rep = next[2]]
    IN  IF st1.fan[h].st = "gather"
        THEN Suspend(h, "await_fanout", n, d, st1)
        ELSE ResetStage(h, n, d, st1)

\* main.py 203-206.
WaveStage(h, n, d, st) ==
    IF LeftAfterSpeechEdge(user_was_present, st.sp, d)
    THEN IF CanSend(st.cn, st.ws)
         THEN Suspend(h, "await_wave", n, d, Emit(st, n, LEFT_AFTER_SPEECH))
         ELSE FanoutStage(h, n, d, Emit(st, n, LEFT_AFTER_SPEECH))
    ELSE HoldStage(h, n, d, st)

\* main.py 197-200.
EnterStage(h, n, d, st) ==
    IF EnteredEdge(user_was_present, d)
    THEN IF CanSend(st.cn, st.ws)
         THEN Suspend(h, "await_enter", n, d, Emit(st, n, ENTERED))
         ELSE WaveStage(h, n, d, Emit(st, n, ENTERED))
    ELSE WaveStage(h, n, d, st)

\* detect_person, main.py 177-235, from the request to its first suspending
\* await (or to its end).  d is person_found.  The request is served by the
\* first free handler.
DetectPerson(h, d) ==
    /\ pc[h] = "idle"
    /\ \A g \in Handlers : g < h => pc[g] # "idle"
    /\ Len(trace) < MaxOps
    /\ trace' = Append(trace, IF d THEN "true" ELSE "false")
    /\ EnterStage(h, Len(trace) + 1, d, Now)
    /\ UNCHANGED <<clientPc, robots, serviceVars>>

\* MyCobotClient.send_signal, mycobot_integration.py 101-115: the awaited
\* websocket.send returned (ok) or raised; it raises when its socket has
\* closed, and then connected is set to False.
AfterSend(h, ok) ==
    IF ok THEN Now
    ELSE [Now EXCEPT !.cn = FALSE,
                     !.ws = IF stale[h] THEN @ ELSE "closed"]

\* The send of handler h can return normally: its socket is the client's
\* current one and is open.
SendCanSucceed(h) == ~stale[h] /\ websocket = "open"

\* detect_person resumes from send_to_mycobot("go_to_celebrate_pose").
ResumeEnter(h, ok) ==
    /\ pc[h] = "await_enter"
    /\ ok => SendCanSucceed(h)
    /\ WaveStage(h, req[h], user_is_present[h], AfterSend(h, ok))
    /\ UNCHANGED <<trace, clientPc, robots, serviceVars>>

\* detect_person resumes from send_to_mycobot("wave_hand").
ResumeWave(h, ok) ==
    /\ pc[h] = "await_wave"
    /\ ok => SendCanSucceed(h)
    /\ FanoutStage(h, req[h], user_is_present[h], AfterSend(h, ok))
    /\ UNCHANGED <<trace, clientPc, robots, serviceVars>>

\* detect_person resumes from robot_service.send_signal(signal).
ResumeFanout(h) ==
    /\ pc[h] = "await_fanout"
    /\ GatherComplete(fan[h])
    /\ ResetStage(h, req[h], user_is_present[h],
                  [Now EXCEPT !.fan = [fan EXCEPT ![h] = IdleFan],
                              !.rep = SendSignalReport(h, fan[h])])
    /\ UNCHANGED <<trace, clientPc, robots, serviceVars>>

\* detect_person resumes from send_to_mycobot("hold_and_home").
ResumeHold(h, ok) ==
    /\ pc[h] = "await_hold"
    /\ ok => SendCanSucceed(h)
    /\ Finish(h, user_is_present[h], AfterSend(h, ok))
    /\ UNCHANGED <<trace, clientPc, robots, serviceVars>>

\* Faulty variant: the flag is set only while the person is present.
MarkSpokenIfPresent(was) == IF was THEN TRUE ELSE user_spoken

\* mark_user_spoken, main.py 260: user_spoken = True, whatever present is.
MarkSpokenValue(was) == TRUE

\* mark_user_spoken, main.py 256-261.

MarkUserSpoken ==
    /\ Len(trace) < MaxOps
    /\ trace' = Append(trace, "mark")
    /\ user_spoken' = MarkSpokenValue(user_was_present)
    /\ UNCHANGED <<user_was_present, pc, user_is_present, req, stale, events,
                   clientVars, robots, serviceVars, fanVars>>

\* ------------------------------------------- the myCobot 320 server
\* mycobot_server_320.py, MyCobotController with an arm attached (mc is not
\* None).  The handler of the WebSocket connection runs execute_command on
\* the event loop thread; _celebrate_cycle runs on a thread of its own.
MaxArm == 9

\* celebrate(), line 167-185: four send_angles calls, each followed by a
\* sleep of 0.3 s, then go_home (send_angles and a sleep of 2 s).
CelebrateSteps == <<"pose1", "pose2", "pose3", "pose4", "home">>
MotionPcs == {CelebrateSteps[i] : i \in 1..Len(CelebrateSteps)}

\* Where the worker goes after the motion step at pc: the next step of
\* celebrate(), and stop_event.wait (line 239) after its last.
AfterMotion(at) ==
    LET i == CHOOSE k \in 1..Len(CelebrateSteps) : CelebrateSteps[k] = at
    IN  IF i < Len(CelebrateSteps) THEN CelebrateSteps[i + 1] ELSE "wait"

WorkerAlive == workerPc \notin {"none", "ended"}

\* What the controller's methods leave alone.
restVars == <<backendVars, settings, endpointVars, serverVars>>

\* A motion command on the serial line of the arm: who sent it, what it was,
\* and whether celebrate_stop_event was set when it was sent.
Command(by, cmd) == [by |-> by, cmd |-> cmd, stopped |-> celebrate_stop_event]

\* start_celebrating, line 187-203.  A second call while celebrating is True
\* returns at line 192-194.  Calls are handled one after the other, and a
\* stop_celebrating_and_exit call lasts 17 s after its join, longer than what
\* is left of a cycle, so no earlier worker is alive when a new one starts.
StartCelebrating ==
    /\ exitPc = "idle"
    /\ ~celebrating
    /\ ~WorkerAlive
    /\ celebrating' = TRUE
    /\ celebrate_stop_event' = FALSE
    /\ workerPc' = "check"
    /\ UNCHANGED <<exitPc, arm, restVars>>

\* stop_celebrating_and_exit, line 205-217: returns at line 207-209 when not
\* celebrating; clears the flag, sets the event, and joins the thread if it
\* is alive.
StopCelebratingAndExit ==
    /\ exitPc = "idle"
    /\ celebrating
    /\ celebrating' = FALSE
    /\ celebrate_stop_event' = TRUE
    /\ exitPc' = IF WorkerAlive THEN "join" ELSE "exit_pose"
    /\ UNCHANGED <<workerPc, arm, restVars>>

\* join(timeout=2), line 217, returns because the thread ended.
JoinReturns ==
    /\ exitPc = "join"
    /\ workerPc = "ended"
    /\ exitPc' = "exit_pose"
    /\ UNCHANGED <<celebrating, celebrate_stop_event, workerPc, arm,
                   restVars>>

\* join(timeout=2), line 217, returns after 2 s with the thread alive: the
\* worker is inside celebrate(), which has no test of the flag or the event
\* and takes up to 3.2 s.
JoinTimesOut ==
    /\ exitPc = "join"
    /\ workerPc \in MotionPcs
    /\ exitPc' = "exit_pose"
    /\ UNCHANGED <<celebrating, celebrate_stop_event, workerPc, arm,
                   restVars>>

\* line 220-223: send_angles(EXIT_POSE), then the sleep of 15 s starts.
SendExitPose ==
    /\ exitPc = "exit_pose"
    /\ Len(arm) < MaxArm
    /\ arm' = Append(arm, Command("exit", "exit_pose"))
    /\ exitPc' = "hold"
    /\ UNCHANGED <<celebrating, celebrate_stop_event, workerPc, restVars>>

\* line 223-227: the sleep of 15 s ended, by which time the worker has ended;
\* go_home sends the home angles.
ExitGoHome ==
    /\ exitPc = "hold"
    /\ ~WorkerAlive
    /\ Len(arm) < MaxArm
    /\ arm' = Append(arm, Command("exit", "home"))
    /\ exitPc' = "idle"
    /\ UNCHANGED <<celebrating, celebrate_stop_event, workerPc, restVars>>

\* _celebrate_cycle, line 232: the test of the while loop.
WorkerChecks ==
    /\ workerPc = "check"
    /\ workerPc' = IF celebrating /\ ~celebrate_stop_event
                   THEN CelebrateSteps[1] ELSE "ended"
    /\ UNCHANGED <<celebrating, celebrate_stop_event, exitPc, arm,
                   restVars>>

\* celebrate(), line 181-185, called at line 234: one send_angles call.
WorkerMoves ==
    /\ workerPc \in MotionPcs
    /\ Len(arm) < MaxArm
    /\ arm' = Append(arm, Command("worker", workerPc))
    /\ workerPc' = AfterMotion(workerPc)
    /\ UNCHANGED <<celebrating, celebrate_stop_event, exitPc, restVars>>

\* line 239-242: celebrate_stop_event.wait(timeout=5) returns True when the
\* event is set and False after 5 s without it; the worker breaks out of
\* the loop on False and goes on to the test of the loop on True.
AfterWait(set) == IF set THEN "check" ELSE "ended"

WorkerWaits ==
    /\ workerPc = "wait"
    /\ workerPc' = AfterWait(celebrate_stop_event)
    /\ UNCHANGED <<celebrating, celebrate_stop_event, exitPc, arm,
                   restVars>>

NextCelebrate ==
    \/ StartCelebrating
    \/ StopCelebratingAndExit
    \/ JoinReturns
    \/ JoinTimesOut
    \/ SendExitPose
    \/ ExitGoHome
    \/ WorkerChecks
    \/ WorkerMoves
    \/ WorkerWaits

\* handle_websocket, one message of a client.  Two servers exist: the one for
\* the myCobot 320 (mycobot_server_320.py) and the earlier one
\* (mycobot_server.py).
Servers == {"320", "first"}

\* action_mapping, mycobot_server_320.py line 396-410 and mycobot_server.py
\* line 220-227: the command of each signal type it has.
Action(a) == Map(<< <<"action", Str(a)>> >>)
ActionAtSpeed(a) == Map(<< <<"action", Str(a)>>, <<"speed", Str("normal")>> >>)

action_mapping(server) ==
    IF server = "320"
    THEN [user_left_after_speaking |-> Action("wave"),
          wave_hand |-> Action("wave"),
          thumbs_up |-> Action("thumbs_up"),
          greet |-> Action("greet"),
          celebrate |-> Action("celebrate"),
          point |-> Action("point"),
          nod |-> Action("nod"),
          home |-> Action("home"),
          start_celebrating |-> Action("start_celebrating"),
          stop_celebrating_and_exit |-> Action("stop_celebrating_and_exit")]
    ELSE [user_left_after_speaking |-> ActionAtSpeed("wave"),
          wave_hand |-> ActionAtSpeed("wave"),
          thumbs_up |-> ActionAtSpeed("thumbs_up"),
          greet |-> Action("greet"),
          celebrate |-> Action("celebrate"),
          point |-> Action("point")]

\* The actions execute_command has a branch for, mycobot_server_320.py line
\* 269-352 and mycobot_server.py line 160-188.
KnownActions(server) ==
    IF server = "320"
    THEN {"wave", "thumbs_up", "point", "greet", "celebrate", "home", "nod",
          "start_celebrating", "stop_celebrating_and_exit", "move_to",
          "send_angles", "send_angle"}
    ELSE {"wave", "thumbs_up", "point", "greet", "celebrate", "home",
          "move_to"}

\* command.get("action", "")
ActionOf(command) ==
    IF "action" \in Keys(command) THEN DictGet(command, "action").s ELSE ""

\* execute_command, mycobot_server_320.py line 258-359 and mycobot_server.py
\* line 148-195: an error without an arm, for an action it has no branch for,
\* and when the motion raises; success otherwise.
execute_command(server, command, attached, raises) ==
    IF ~attached THEN [status |-> "error", message |-> "Robot not connected"]
    ELSE IF ActionOf(command) \notin KnownActions(server)
    THEN [status |-> "error", message |-> "Unknown action"]
    ELSE IF raises THEN [status |-> "error", message |-> "exception"]
    ELSE [status |-> "success", message |-> ActionOf(command)]

\* handle_websocket, mycobot_server_320.py line 392-437 and mycobot_server.py
\* line 216-246: the command is the one of the mapping, or the data of the
\* message for a signal type the mapping does not have; an empty command is
\* answered with an error and not executed.
HandleMessage(server, signal_type, data, attached, raises) ==
    LET command == IF signal_type \in DOMAIN action_mapping(server)
                   THEN action_mapping(server)[signal_type]
                   ELSE data
    IN  IF Truthy(command)
        THEN [type |-> "response", signalType |-> signal_type,
              result |-> execute_command(server, command, attached, raises)]
        ELSE [type |-> "error", signalType |-> signal_type,
              result |-> [status |-> "none",
                          message |-> "Unknown signal type"]]

\* The signal types /detect sends to the myCobot (main.py 200, 206, 220),
\* those of the gesture endpoints (MYCOBOT_GESTURES), and "custom" (main.py
\* 396).
PresenceSignals == {"go_to_celebrate_pose", "wave_hand", "hold_and_home"}
SentSignals == PresenceSignals \cup
               {"wave", "thumbs_up", "point", "greet", "celebrate", "home",
                "custom"}

\* send_signal, mycobot_integration.py line 102-106: "data": data or {}.
\* /detect and the gesture endpoints pass no data; the custom endpoint passes
\* the body of its request.
EmptyData == Map(<<>>)
SentData(signal_type) ==
    IF signal_type = "custom"
    THEN {EmptyData, Action("move_to"), Action("home"), Action("dance"),
          Map(<< <<"speed", Str("fast")>> >>)}
    ELSE {EmptyData}

\* A server receives one message of the backend and answers it.
ServerReceives(server, signal_type, data, attached, raises) ==
    /\ server_in' = [server |-> server, signal_type |-> signal_type,
                     data |-> data, attached |-> attached,
                     raises |-> raises]
    /\ server_reply' = HandleMessage(server, signal_type, data, attached,
                                     raises)
    /\ UNCHANGED <<controllerVars, settings, endpointVars, backendVars>>

NextServer ==
    \E server \in Servers, signal_type \in SentSignals,
       attached \in BOOLEAN, raises \in BOOLEAN :
       \E data \in SentData(signal_type) :
          ServerReceives(server, signal_type, data, attached, raises)

\* ------------------------------------------------------- specifications
Registries == [RobotIds -> {"absent", "enabled", "disabled"}]

\* The registries of the presence specifications: robot "A" alone, enabled
\* or disabled.
SmallRegistries ==
    {rs \in Registries : /\ rs["A"] # "absent"
                         /\ \A r \in RobotIds \ {"A"} : rs[r] = "absent"}

InitCommon ==
    /\ user_was_present = FALSE
    /\ user_spoken = FALSE
    /\ pc = [h \in Handlers |-> "idle"]
    /\ user_is_present = [h \in Handlers |-> FALSE]
    /\ req = [h \in Handlers |-> 0]
    /\ stale = [h \in Handlers |-> FALSE]
    /\ connected = FALSE
    /\ websocket = "None"
    /\ clientPc = "connect"
    /\ fan = [c \in Callers |-> IdleFan]
    /\ report = NoReport
    /\ trace = <<>>
    /\ events = <<>>

\* RobotSignalService.__init__, line 74-79: no connection, no client, no
\* task.
InitCaches ==
    /\ websocket_connections = [r \in RobotIds |-> 0]
    /\ serial_connections = [r \in RobotIds |-> "none"]
    /\ serial_ports = [r \in RobotIds |-> 0]
    /\ handle_to = [websocket |-> [r \in RobotIds |-> "none"],
                    serial |-> [r \in RobotIds |-> "none"],
                    mqtt |-> "none"]
    /\ mqtt_client = "None"
    /\ sockets = <<>>
    /\ task = [c \in Callers |-> IdleTasks]
    /\ disconnects = [r \in RobotIds |-> "none"]
    /\ blocked = FALSE
    /\ mqtt_created = 0
    /\ mqtt_connects = 0
    /\ calls = 0
    /\ registry_ops = 0

\* No request of the robot and gesture endpoints has been made,
\* MyCobotClient.connect() has not run, and disconnect() has not been called.
NoRequest == [id |-> "none", protocol |-> "none", complete |-> FALSE,
              status |-> 0, n |-> 0]

\* MyCobotController.__init__, mycobot_server_320.py line 50-53: not
\* celebrating, no thread, the event not set; nothing was sent to the arm.
InitController ==
    /\ celebrating = FALSE
    /\ celebrate_stop_event = FALSE
    /\ workerPc = "none"
    /\ exitPc = "idle"
    /\ arm = <<>>

\* The transport parameters robots.json holds: every robot has a url, a
\* device or a broker and credentials of its own.
LoadedSettings == [r \in RobotIds |-> r]

\* MyCobotClient.__init__, mycobot_integration.py line 21-24, as called at
\* line 126 with its defaults: the uri is formatted from host and port.
DefaultHost == "localhost"
DefaultPort == 8765
Uri(h, p) == "ws://" \o h \o ":" \o ToString(p)

InitEndpoint(at) ==
    /\ host = DefaultHost
    /\ port = DefaultPort
    /\ uri = Uri(DefaultHost, DefaultPort)
    /\ startup = at

\* No client has sent a message to a myCobot server.
NoMessage == [server |-> "none", signal_type |-> "", data |-> "none",
              attached |-> FALSE, raises |-> FALSE]

InitDevices(at) ==
    /\ InitController
    /\ settings = LoadedSettings
    /\ InitEndpoint(at)
    /\ server_in = NoMessage
    /\ server_reply = NoMessage

InitLinkAt(at) ==
    /\ InitDevices(at)
    /\ added = NoRequest
    /\ sends = <<>>
    /\ written = <<>>
    /\ received = <<>>
    /\ accepting = FALSE
    /\ closing = "none"
    /\ loop = <<>>

\* lifespan has run with MYCOBOT_HOST and MYCOBOT_PORT unset.
InitLink == InitLinkAt("running")

\* No payload is being built.
InitServiceAt(at) ==
    /\ InitCaches
    /\ InitLinkAt(at)
    /\ signal = [signal_type |-> "user_left_after_speaking", timestamp |-> 1,
                 data |-> Map(<<>>)]
    /\ commands = Map(<<>>)
    /\ payload = NotBuilt

InitService == InitServiceAt("running")

\* load_robots, line 81-110: the registry is the one robots.json holds.  In
\* the presence and dispatch specifications every robot is an HTTP robot.
InitHttpRegistry ==
    /\ protocol = [r \in RobotIds |->
                     IF robots[r] = "absent" THEN "none" ELSE "http"]
    /\ robots_file = [robots |-> robots, protocol |-> protocol]

Init ==
    /\ InitCommon
    /\ robots \in SmallRegistries
    /\ InitHttpRegistry
    /\ InitService

HandlerStep(h) ==
    \/ \E ok \in BOOLEAN : ResumeEnter(h, ok)
    \/ \E ok \in BOOLEAN : ResumeWave(h, ok)
    \/ ResumeFanout(h)
    \/ \E ok \in BOOLEAN : ResumeHold(h, ok)
    \/ \E r \in RobotIds, o \in ConnectorOutcomes : SendToRobot(h, r, o)

Next ==
    \/ \E h \in Handlers, d \in BOOLEAN : DetectPerson(h, d)
    \/ \E h \in Handlers : HandlerStep(h)
    \/ MarkUserSpoken
    \/ ClientRuns

Spec == Init /\ [][Next]_vars

\* One /detect request at a time: a request arrives when no other is in
\* flight.
NoneInFlight == \A h \in Handlers : pc[h] = "idle"

NextSerial ==
    \/ \E h \in Handlers, d \in BOOLEAN : NoneInFlight /\ DetectPerson(h, d)
    \/ \E h \in Handlers : HandlerStep(h)
    \/ MarkUserSpoken
    \/ ClientRuns

SpecSerial == Init /\ [][NextSerial]_vars

InitDispatch ==
    /\ InitCommon
    /\ robots \in Registries
    /\ InitHttpRegistry
    /\ InitService

NextDispatch ==
    \/ \E t \in RobotIds \cup {NoTarget} : TriggerRobotSignal(t)
    \/ \E r \in RobotIds, o \in ConnectorOutcomes : SendToRobot(ApiCaller, r, o)
    \/ TriggerRobotSignalDone

SpecDispatch == InitDispatch /\ [][NextDispatch]_vars

Outcomes == {"ok", "raise", "never"}

HttpStep(c, r) ==
    \/ \E cf \in BOOLEAN : SendHttp(c, r, cf)
    \/ \E reply \in {"2xx", "non_2xx", "error"} : HttpReplied(c, r, reply)

WebsocketStep(c, r) ==
    \/ \E cf \in BOOLEAN : SendWebsocket(c, r, cf)
    \/ \E o \in Outcomes : WebsocketConnects(c, r, o)
    \/ \E o \in Outcomes : WebsocketSends(c, r, o)

MqttStep(c, r) ==
    \E cf \in BOOLEAN, conn \in Outcomes, pub \in {"ok", "raise"} :
       SendMqtt(c, r, cf, conn, pub)

SerialStep(c, r) ==
    \E cf \in BOOLEAN, open \in {"ok", "raise"}, write \in Outcomes :
       SendSerial(c, r, cf, open, write)

TaskStep(c, r) ==
    \/ SendToRobotFails(c, r)
    \/ HttpStep(c, r)
    \/ WebsocketStep(c, r)
    \/ MqttStep(c, r)
    \/ SerialStep(c, r)

\* The registries that hold robots of ServiceRobots only.
ServiceRegistries ==
    {rs \in Registries : \A r \in RobotIds \ ServiceRobots : rs[r] = "absent"}

\* The registries that hold every robot of ServiceRobots, enabled.
EnabledRegistries ==
    {rs \in ServiceRegistries : \A r \in ServiceRobots : rs[r] = "enabled"}

\* The ways a registry can give its robots protocols of the set protos.  A
\* and B are interchangeable, so A's protocol is not later than B's in
\* ProtocolOrder.
ProtocolOrder == <<"http", "websocket", "mqtt", "serial">>
Rank(proto) ==
    IF proto = "none" THEN 0 ELSE CHOOSE i \in 1..4 : ProtocolOrder[i] = proto
ProtocolsOf(rs, protos) ==
    {ps \in [RobotIds -> protos \cup {"none"}] :
       /\ \A r \in RobotIds : (ps[r] = "none") <=> (rs[r] = "absent")
       /\ Rank(ps["A"]) <= Rank(ps["B"])}

\* load_robots, line 81-110: the registry is one of rs with protocols of
\* protos, as robots.json holds it.
InitLoaded(rs, protos) ==
    /\ InitCommon
    /\ robots \in rs
    /\ protocol \in ProtocolsOf(robots, protos)
    /\ robots_file = [robots |-> robots, protocol |-> protocol]
    /\ InitService

\* The connectors: the registry holds the robots A and B, enabled and of any
\* protocol, and does not change; two send_signal calls can be in flight.
InitConnectors == InitLoaded(EnabledRegistries, Protocols)

NextConnectors ==
    \/ \E t \in ServiceRobots \cup {NoTarget} : SendSignal(ApiCaller, t)
    \/ SendSignal(FanoutHandler, NoTarget)
    \/ \E c \in ServiceCallers : SendSignalReturns(c)
    \/ \E c \in ServiceCallers, r \in RobotIds : TaskStep(c, r)

SpecConnectors == InitConnectors /\ [][NextConnectors]_vars

\* The event loop runs a task that can run.
SpecConnectorsFair == SpecConnectors /\ WF_vars(NextConnectors)

\* One send_signal call at a time, to robots of any protocol.
NextDelivery ==
    \/ \E t \in ServiceRobots \cup {NoTarget} : SendSignal(ApiCaller, t)
    \/ SendSignalReturns(ApiCaller)
    \/ \E r \in RobotIds : TaskStep(ApiCaller, r)

SpecDelivery == InitConnectors /\ [][NextDelivery]_vars

\* The shared MQTT client: A and B are MQTT robots; two send_signal calls can
\* be in flight.
InitMqtt == InitLoaded(EnabledRegistries, {"mqtt"})

NextMqtt ==
    \/ \E t \in ServiceRobots \cup {NoTarget} : SendSignal(ApiCaller, t)
    \/ SendSignal(FanoutHandler, NoTarget)
    \/ \E c \in ServiceCallers : SendSignalReturns(c)
    \/ \E c \in ServiceCallers, r \in RobotIds : SendToRobotFails(c, r)
    \/ \E c \in ServiceCallers, r \in RobotIds : MqttStep(c, r)

SpecMqtt == InitMqtt /\ [][NextMqtt]_vars

\* The registry and the cached handles: A and B are WebSocket or Serial
\* robots; add_robot, remove_robot and the disconnect tasks run next to the
\* send_signal calls of /api/robot/signal.
HandleProtocols == {"websocket", "serial"}

InitRegistry == InitLoaded(EnabledRegistries, HandleProtocols)

NextRegistry ==
    \/ \E t \in ServiceRobots \cup {NoTarget} : SendSignal(ApiCaller, t)
    \/ SendSignalReturns(ApiCaller)
    \/ \E r \in RobotIds : SendToRobotFails(ApiCaller, r)
    \/ \E r \in RobotIds : WebsocketStep(ApiCaller, r)
    \/ \E r \in RobotIds : SerialStep(ApiCaller, r)
    \/ \E r \in ServiceRobots, proto \in HandleProtocols, en \in BOOLEAN :
          AddRobot(r, proto, en, TRUE)
    \/ \E r \in ServiceRobots : RemoveRobot(r, TRUE)
    \/ \E r \in ServiceRobots : DisconnectRobot(r)
    \/ \E r \in ServiceRobots : DisconnectRobotResumes(r)

SpecRegistry == InitRegistry /\ [][NextRegistry]_vars

\* The targets of a fan-out: the registry holds any of the HTTP robots A and
\* B and changes while a send_signal call is in flight.
InitSnapshot == InitLoaded(ServiceRegistries, {"http"})

NextSnapshot ==
    \/ \E t \in ServiceRobots \cup {NoTarget} : SendSignal(ApiCaller, t)
    \/ SendSignalReturns(ApiCaller)
    \/ \E r \in RobotIds : SendToRobotFails(ApiCaller, r)
    \/ \E r \in RobotIds : HttpStep(ApiCaller, r)
    \/ \E r \in ServiceRobots, en \in BOOLEAN : AddRobot(r, "http", en, TRUE)
    \/ \E r \in ServiceRobots : RemoveRobot(r, TRUE)
    \/ \E r \in ServiceRobots : DisconnectRobot(r)

SpecSnapshot == InitSnapshot /\ [][NextSnapshot]_vars

\* The payload of one signal for one robot.
InitPayload ==
    /\ InitCommon
    /\ robots \in SmallRegistries
    /\ InitHttpRegistry
    /\ InitCaches
    /\ InitLink
    /\ signal \in Signals
    /\ commands \in CommandMaps
    /\ payload = NotBuilt

SpecPayload == InitPayload /\ [][BuildPayload]_vars

\* The robot endpoints: bodies of every protocol, complete or not, and
\* writes of robots.json that succeed or fail.
InitAdmin == InitLoaded(ServiceRegistries, {"http"})

NextAdmin ==
    \/ \E r \in ServiceRobots, proto \in RequestProtocols,
          complete, enabled, saved \in BOOLEAN :
          PostRobot(r, proto, complete, enabled, saved)
    \/ \E r \in ServiceRobots, saved \in BOOLEAN : RemoveRobot(r, saved)
    \/ \E r \in ServiceRobots : DisconnectRobot(r)

SpecAdmin == InitAdmin /\ [][NextAdmin]_vars

\* The actuator client by itself: its loop with every outcome of connect and
\* of the reads, inbound messages, and disconnect().
InitClientAt(at) ==
    /\ InitCommon
    /\ robots = [r \in RobotIds |-> "absent"]
    /\ InitHttpRegistry
    /\ InitServiceAt(at)

InitClient == InitClientAt("running")

NextClient ==
    \/ ClientRuns
    \/ \E msg \in Inbound : KeepAliveReceives(msg)
    \/ Disconnect
    \/ DisconnectResumes

SpecClient == InitClient /\ [][NextClient]_vars

\* Calls of the gesture endpoints while the loop runs; of the inbound
\* messages, the one that ends _keep_alive.
NextSends ==
    \/ ClientRuns
    \/ \E sig \in Gestures, ok \in BOOLEAN : ClientSendSignal(sig, ok)
    \/ \E msg \in {m \in Inbound : HandleRaises(m)} : KeepAliveReceives(msg)

SpecSends == InitClient /\ [][NextSends]_vars

\* The client started against an endpoint that refuses every connection.
NextRefusing ==
    \/ RefusedAttempt
    \/ Waited
    \/ \E sig \in Gestures, ok \in BOOLEAN : ClientSendSignal(sig, ok)

SpecRefusing == InitClient /\ [][NextRefusing]_vars

\* The loop of connect() against an endpoint that refuses connections until
\* it comes up and accepts them from then on.  The event loop runs every
\* timer that is due and every connect attempt ends (websockets.connect has
\* an open timeout).
ConnectAttempt ==
    \/ accepting /\ ConnectSucceeds
    \/ ~accepting /\ ConnectRefused
    \/ ~accepting /\ ConnectFails

NextLoop ==
    \/ ConnectAttempt /\ UNCHANGED loop
    \/ WelcomeReceived /\ UNCHANGED loop
    \/ WelcomeFails /\ UNCHANGED loop
    \/ KeepAliveRaises /\ UNCHANGED loop
    \/ KeepAliveEnds /\ UNCHANGED loop
    \/ SleepDone /\ UNCHANGED loop
    \/ \E msg \in Inbound : KeepAliveReceives(msg)
    \/ EndpointAccepts

SpecLoop == InitClient /\ [][NextLoop]_vars

SpecLoopFair ==
    /\ SpecLoop
    /\ WF_vars(ConnectAttempt /\ UNCHANGED loop)
    /\ WF_vars(SleepDone /\ UNCHANGED loop)

\* WebSocket robots A and B, added and replaced through the API, and one
\* send_signal call after the other.
InitLazy == InitLoaded(ServiceRegistries, {"websocket"})

NextLazy ==
    \/ \E t \in ServiceRobots \cup {NoTarget} : SendSignal(ApiCaller, t)
    \/ SendSignalReturns(ApiCaller)
    \/ \E r \in RobotIds : WebsocketStep(ApiCaller, r)
    \/ \E r \in ServiceRobots, en \in BOOLEAN :
          AddRobot(r, "websocket", en, TRUE)

SpecLazy == InitLazy /\ [][NextLazy]_vars


\* Calls of the gesture endpoints while connect() runs against an endpoint
\* that refuses connections until it comes up.  The event loop runs every
\* timer that is due, every connect attempt ends, and a read on a closed
\* connection returns: recv and the message iterator raise or end once the
\* connection is closed.
ReadOnClosed ==
    /\ websocket = "closed"
    /\ (WelcomeFails \/ KeepAliveRaises \/ KeepAliveEnds)
    /\ UNCHANGED loop

NextReconnect ==
    \/ ConnectAttempt /\ UNCHANGED loop
    \/ WelcomeReceived /\ UNCHANGED loop
    \/ WelcomeFails /\ UNCHANGED loop
    \/ KeepAliveRaises /\ UNCHANGED loop
    \/ KeepAliveEnds /\ UNCHANGED loop
    \/ SleepDone /\ UNCHANGED loop
    \/ \E sig \in Gestures, ok \in BOOLEAN : ClientSendSignal(sig, ok)
    \/ EndpointAccepts

SpecReconnect == InitClient /\ [][NextReconnect]_vars

SpecReconnectFair ==
    /\ SpecReconnect
    /\ WF_vars(ConnectAttempt /\ UNCHANGED loop)
    /\ WF_vars(SleepDone /\ UNCHANGED loop)
    /\ WF_vars(ReadOnClosed)


\* The loop of connect() with every websockets.connect call (line 34) and
\* every asyncio.sleep(reconnect_interval) that ended (line 53, 57) put on
\* record, against an endpoint that can come up and whose connections can
\* drop.
RecordedAttempt ==
    /\ Len(loop) < MaxLoop
    /\ ConnectAttempt
    /\ loop' = Append(loop, "attempt")

NextIntervals ==
    \/ RecordedAttempt
    \/ Waited
    \/ WelcomeReceived /\ UNCHANGED loop
    \/ WelcomeFails /\ UNCHANGED loop
    \/ KeepAliveRaises /\ UNCHANGED loop
    \/ KeepAliveEnds /\ UNCHANGED loop
    \/ EndpointAccepts

SpecIntervals == InitClient /\ [][NextIntervals]_vars


\* The controller of the myCobot 320 server under the celebration commands.
SpecCelebrate == InitClient /\ [][NextCelebrate]_vars


\* WebSocket and Serial robots A and B whose configuration is replaced
\* through the API, and one send_signal call after the other.
InitReplace == InitLoaded(EnabledRegistries, {"websocket", "serial"})

NextReplace ==
    \/ \E t \in ServiceRobots \cup {NoTarget} : SendSignal(ApiCaller, t)
    \/ SendSignalReturns(ApiCaller)
    \/ \E r \in RobotIds : WebsocketStep(ApiCaller, r)
    \/ \E r \in RobotIds : SerialStep(ApiCaller, r)
    \/ \E r \in ServiceRobots, e \in NewSettings, saved \in BOOLEAN :
          ReplaceRobot(r, e, saved)

SpecReplace == InitReplace /\ [][NextReplace]_vars


\* What MYCOBOT_HOST and MYCOBOT_PORT can give (main.py 41-42); unset, they
\* give the defaults.
Hosts == {DefaultHost, "arm.local"}
Ports == {DefaultPort, 9000}

\* lifespan, main.py 133-137: host and port are assigned from the
\* environment and the task of connect() is created; uri is not assigned.
Lifespan(h, p) ==
    /\ startup = "constructed"
    /\ host' = h
    /\ port' = p
    /\ startup' = "running"
    /\ UNCHANGED <<uri, controllerVars, settings, serverVars, backendVars>>

\* mycobot_status, main.py 342-349.
MycobotStatus == [connected |-> connected, host |-> host, port |-> port]

\* connect(), line 31-39, once its task has been created: every
\* websockets.connect call is given self.uri.
Dials == startup = "running" /\ ConnectAttempt /\ UNCHANGED loop

NextEndpoint ==
    \/ \E h \in Hosts, p \in Ports : Lifespan(h, p)
    \/ Dials
    \/ WelcomeReceived /\ UNCHANGED loop
    \/ WelcomeFails /\ UNCHANGED loop
    \/ KeepAliveRaises /\ UNCHANGED loop
    \/ KeepAliveEnds /\ UNCHANGED loop
    \/ SleepDone /\ UNCHANGED loop
    \/ \E msg \in Inbound : KeepAliveReceives(msg)
    \/ EndpointAccepts

\* The module is imported: the client is constructed, lifespan has not run.
InitConstructed == InitClientAt("constructed")

SpecEndpoint == InitConstructed /\ [][NextEndpoint]_vars


\* The messages of the backend, one after the other, at a myCobot server.
SpecServer == InitClient /\ [][NextServer]_vars

\* ----------------------------------------------------------- properties
\* The detection results in arrival order.
Detections == SelectSeq(trace, LAMBDA x : x # "mark")

\* The false->true edges of a detection sequence that starts from present =
\* false.
RisingEdges(D) ==
    Cardinality({i \in 1..Len(D) :
                   D[i] = "true" /\ (i = 1 \/ D[i - 1] = "false")})

\* The true->false edges of a detection sequence.
FallingEdges(D) ==
    Cardinality({i \in 2..Len(D) : D[i] = "false" /\ D[i - 1] = "true"})

EventNames == [i \in 1..Len(events) |-> events[i][2]]

\* The events request n emitted, in order.
CallEvents(n) ==
    LET s == SelectSeq(events, LAMBDA e : e[1] = n)
    IN  [i \in 1..Len(s) |-> s[i][2]]

Count(e) == Cardinality({i \in 1..Len(events) : events[i][2] = e})

\* The requests that emitted a departure event.
DepartureCalls ==
    {n \in 1..Len(trace) :
       \E i \in 1..Len(events) :
          events[i][1] = n /\ events[i][2] \in {LEFT, LEFT_AFTER_SPEECH}}

VisitWithSpeech == <<"false", "true", "true", "mark", "false">>
VisitWithoutSpeech == <<"false", "true", "false">>

\* C1 as stated: every /detect request emits at most one presence event.
C1_AtMostOneEvent == \A n \in 1..Len(trace) : Len(CallEvents(n)) <= 1

\* C1 amended: the events of one /detect request are nothing, ENTERED alone,
\* or departure events: LEFT, LEFT_AFTER_SPEECH, or LEFT_AFTER_SPEECH
\* followed by LEFT.  ENTERED is emitted only for a frame with a person and
\* departure events only for a frame without one.
C1_EventsOfOneCall ==
    \A n \in 1..Len(trace) :
       /\ CallEvents(n) \in {<<>>, <<ENTERED>>, <<LEFT>>, <<LEFT_AFTER_SPEECH>>,
                             <<LEFT_AFTER_SPEECH, LEFT>>}
       /\ CallEvents(n) = <<ENTERED>> => trace[n] = "true"
       /\ CallEvents(n) \notin {<<>>, <<ENTERED>>} => trace[n] = "false"

\* A departure after speech has emitted LEFT_AFTER_SPEECH and LEFT.
C1_Witness ==
    \E n \in 1..Len(trace) : CallEvents(n) = <<LEFT_AFTER_SPEECH, LEFT>>

\* C2 as stated: with requests processed one at a time, ENTERED events equal
\* the false->true edges and LEFT plus LEFT_AFTER_SPEECH events equal the
\* true->false edges.
C2_EdgeCounts ==
    NoneInFlight =>
       /\ Count(ENTERED) = RisingEdges(Detections)
       /\ Count(LEFT) + Count(LEFT_AFTER_SPEECH) = FallingEdges(Detections)

\* C2 amended: with requests processed one at a time, ENTERED events equal
\* the false->true edges, LEFT events equal the true->false edges, and the
\* requests that emitted a departure event (LEFT, with or without
\* LEFT_AFTER_SPEECH) equal the true->false edges.
C2_EdgeCountsAmended ==
    NoneInFlight =>
       /\ Count(ENTERED) = RisingEdges(Detections)
       /\ Count(LEFT) = FallingEdges(Detections)
       /\ Count(LEFT_AFTER_SPEECH) <= FallingEdges(Detections)
       /\ Cardinality(DepartureCalls) = FallingEdges(Detections)

\* Two visits have ended, one of them after speech.
C2_Witness ==
    /\ NoneInFlight
    /\ RisingEdges(Detections) = 2
    /\ FallingEdges(Detections) = 2
    /\ Count(LEFT_AFTER_SPEECH) = 1

\* C3 as stated: detections false, true, true, false with mark_spoken after
\* the second true emit exactly ENTERED, LEFT_AFTER_SPEECH and leave spoken
\* false.
C3_VisitWithSpeech ==
    (NoneInFlight /\ trace = VisitWithSpeech) =>
       /\ EventNames = <<ENTERED, LEFT_AFTER_SPEECH>>
       /\ ~user_spoken

\* C3 amended: that visit emits exactly ENTERED, LEFT_AFTER_SPEECH, LEFT and
\* leaves spoken false.
C3_VisitWithSpeechAmended ==
    (NoneInFlight /\ trace = VisitWithSpeech) =>
       /\ EventNames = <<ENTERED, LEFT_AFTER_SPEECH, LEFT>>
       /\ ~user_spoken

\* The visit with speech has been processed.
C3_Witness == NoneInFlight /\ trace = VisitWithSpeech /\ Len(events) = 3

\* C4: detections false, true, false without mark_spoken emit exactly
\* ENTERED, LEFT; send_signal is never called.
C4_VisitWithoutSpeech ==
    (NoneInFlight /\ trace = VisitWithoutSpeech) =>
       /\ EventNames = <<ENTERED, LEFT>>
       /\ report = NoReport
       /\ \A c \in Callers : fan[c] = IdleFan

\* The visit without speech has been processed.
C4_Witness == NoneInFlight /\ trace = VisitWithoutSpeech /\ Len(events) = 2

\* A /detect request arrives whose detection equals the previous one.
RepeatedDetection ==
    /\ Len(trace') = Len(trace) + 1
    /\ trace'[Len(trace')] # "mark"
    /\ Detections # <<>>
    /\ trace'[Len(trace')] = Detections[Len(Detections)]

\* C5: with requests processed one at a time, a /detect request whose
\* detection equals the previous detection ends without an event and leaves
\* present unchanged.
C5_ObserveIdempotent ==
    [][RepeatedDetection =>
          /\ events' = events
          /\ user_was_present' = user_was_present
          /\ NoneInFlight']_vars

\* A repeated detection of a present person who has spoken was processed.
C5_Witness ==
    /\ NoneInFlight
    /\ Len(Detections) >= 2
    /\ Detections[Len(Detections)] = "true"
    /\ Detections[Len(Detections) - 1] = "true"
    /\ trace[Len(trace)] = "true"
    /\ user_spoken

\* C6 as stated: between requests, spoken = true implies present = true.
C6_SpokenOnlyWhilePresent ==
    NoneInFlight => (user_spoken => user_was_present)

\* C6 amended: mark_spoken sets spoken whatever present is, and spoken
\* becomes true by mark_spoken only.
C6_MarkSetsSpoken ==
    [][/\ trace' = Append(trace, "mark") => user_spoken'
       /\ (~user_spoken /\ user_spoken') => trace' = Append(trace, "mark")]_vars

\* mark_spoken was called while nobody was present.
C6_Witness ==
    /\ trace # <<>>
    /\ trace[Len(trace)] = "mark"
    /\ Detections = <<>>
    /\ user_spoken
    /\ ~user_was_present

\* A /detect request returns in this step: one that was suspended in handler
\* h, or one that arrives and runs to its end without suspending.
Returns(h) ==
    \/ pc[h] # "idle" /\ pc'[h] = "idle"
    \/ /\ pc[h] = "idle"
       /\ pc' = pc
       /\ Len(trace') = Len(trace) + 1
       /\ trace'[Len(trace')] # "mark"
       /\ \A g \in Handlers : g < h => pc[g] # "idle"

\* The request that returns, and its detection.
ReturningRequest(h) == IF pc[h] = "idle" THEN Len(trace') ELSE req[h]
ReturningDetection(h) ==
    IF pc[h] = "idle" THEN trace'[Len(trace')] = "true" ELSE user_is_present[h]

\* C7: with requests processed one at a time, when a /detect request returns
\* present equals its detection, and its events are those of the edge between
\* the value present had before the request and the detection.
C7_PresentIsDetected ==
    [][\A h \in Handlers :
          Returns(h) =>
             LET d == ReturningDetection(h)
                 evs == {events'[i][2] : i \in {j \in 1..Len(events') :
                           events'[j][1] = ReturningRequest(h)}}
             IN  /\ user_was_present' = d
                 /\ (ENTERED \in evs) <=> (~user_was_present /\ d)
                 /\ (LEFT \in evs) <=> (user_was_present /\ ~d)
                 /\ (LEFT_AFTER_SPEECH \in evs) => (user_was_present /\ ~d)]_vars

\* A departure after speech was processed while the actuator had never been
\* connected and every robot of the fan-out failed.
C7_Witness ==
    /\ NoneInFlight
    /\ websocket = "None"
    /\ report.caller \in Handlers
    /\ report.targets # {}
    /\ report.count = 0
    /\ events # <<>>
    /\ events[Len(events)][2] = LEFT
    /\ ~user_was_present

\* C8: observations are serialized, so each false->true edge of the arriving
\* detections yields one ENTERED and each true->false edge one request with a
\* departure event, also with two /detect requests in flight.
C8_Serialized ==
    /\ Count(ENTERED) <= RisingEdges(Detections)
    /\ Cardinality(DepartureCalls) <= FallingEdges(Detections)
    /\ NoneInFlight =>
          /\ Count(ENTERED) = RisingEdges(Detections)
          /\ Cardinality(DepartureCalls) = FallingEdges(Detections)

\* C9: in a broadcast send_signal every enabled robot gets exactly one
\* delivery attempt and every other robot none, whatever the attempts to the
\* other targets did.
C9_OneAttemptPerEnabled ==
    /\ \A c \in Callers : \A r \in RobotIds : fan[c].att[r] <= 1
    /\ (report.caller # -1 /\ report.target = NoTarget) =>
          \A r \in RobotIds :
             report.att[r] = (IF robots[r] = "enabled" THEN 1 ELSE 0)

\* A broadcast to A, B, C (enabled) and not D (disabled) has returned; the
\* attempt to B failed.
C9_Witness ==
    /\ report.caller = ApiCaller
    /\ report.target = NoTarget
    /\ robots = [r \in RobotIds |-> IF r = "D" THEN "disabled" ELSE "enabled"]
    /\ report.out["A"] = "ok"
    /\ report.out["B"] = "raise"
    /\ report.out["C"] = "ok"
    /\ report.att["D"] = 0
    /\ report.count = 2

\* C10 as stated: send_signal returns a delivery report to its caller.
C10_ReturnsReport ==
    (report.caller # -1 /\ report.ret # "KeyError") => report.ret # "None"

\* C10 amended: send_signal returns None; with targets it logs a success
\* count equal to the number of attempts that returned True, and without a
\* target it logs a warning and no count.
C10_CountLogged ==
    (report.caller # -1 /\ report.ret # "KeyError") =>
       /\ report.ret = "None"
       /\ IF report.targets = {}
          THEN report.warned /\ report.count = -1
          ELSE /\ ~report.warned
               /\ report.count =
                    Cardinality({r \in report.targets : report.out[r] = "ok"})

\* A fan-out has returned with one attempt True, one False and one raised.
C10_Witness ==
    /\ report.caller = ApiCaller
    /\ report.out["A"] = "ok"
    /\ report.out["B"] = "false"
    /\ report.out["C"] = "raise"
    /\ report.count = 1
    /\ report.ret = "None"

FailureKinds == {"bad_override", "missing_param", "transport_failed"}

\* C12: no delivery attempt ends with an exception as its result: whatever
\* the protocol and the failure (a missing parameter, a connect or send
\* error, a reply that is not 2xx, an override that is no mapping), the
\* result of the attempt is false, and a send_signal call that made attempts
\* returns None.
C12_FailuresAreFalse ==
    /\ \A c \in Callers, r \in RobotIds :
          /\ fan[c].res[r] \in {"none", "pending", "true", "false"}
          /\ fan[c].out[r] \in FailureKinds => fan[c].res[r] = "false"
          /\ fan[c].out[r] = "ok" => fan[c].res[r] = "true"
    /\ \A r \in RobotIds :
          /\ report.res[r] \in {"none", "true", "false"}
          /\ report.out[r] \in FailureKinds => report.res[r] = "false"
    /\ report.targets # {} => report.ret = "None"

\* A send_signal call to a WebSocket robot and a Serial robot has returned:
\* the override of the one was no mapping and the transport of the other
\* failed.
C12_Witness ==
    /\ report.caller = ApiCaller
    /\ protocol["A"] = "websocket"
    /\ protocol["B"] = "serial"
    /\ report.out["A"] = "bad_override"
    /\ report.out["B"] = "transport_failed"
    /\ report.count = 0
    /\ report.ret = "None"

\* C13 as stated: every send_signal call that has started its fan-out
\* returns, also when the transport of a target never answers.
C13_AlwaysCompletes ==
    \A c \in ServiceCallers : (fan[c].st = "gather") ~> (fan[c].st = "idle")

\* The attempt to target r of call c is inside a transport call that does not
\* return.
Stuck(c, r) == task[c][r].pc \in {"hung", "in_call"}

\* C14 as stated: within one fan-out, while the attempt to one target is
\* stuck inside its transport call (the synchronous MQTT connect and serial
\* write included), the attempt to another target that has not started can
\* start.
C14_OthersProgress ==
    \A c \in ServiceCallers : \A r1, r2 \in ServiceRobots :
       (Stuck(c, r1) /\ task[c][r2].pc = "ready") => ENABLED TaskStep(c, r2)

\* The override a commands mapping holds for the signal's type, None without.
OverrideOf(sig, cmds) == DictGet(cmds, sig.signal_type)

\* C15: the payload built for a robot is the default fields signalType,
\* timestamp and data of the signal with the top-level keys of the robot's
\* override for the signal type added or put in their place (a nested
\* mapping is replaced as a whole); without an override it is exactly the
\* default fields.  Commands {wave_hand: {speed: fast}} and a wave_hand
\* signal give speed = fast next to signalType and timestamp.
C15_PayloadMerge ==
    payload # NotBuilt =>
       LET default == to_dict(signal)
           override == OverrideOf(signal, commands)
       IN  /\ Keys(default) = {"signalType", "timestamp", "data"}
           /\ DictGet(default, "signalType") = Str(signal.signal_type)
           /\ DictGet(default, "data") = signal.data
           /\ override = PyNone => payload = default
           /\ override.kind = "dict" =>
                 /\ payload.kind = "dict"
                 /\ Len(payload.items) = Cardinality(Keys(payload))
                 /\ Keys(payload) = Keys(default) \cup Keys(override)
                 /\ \A k \in Keys(payload) :
                       DictGet(payload, k) =
                          (IF k \in Keys(override) THEN DictGet(override, k)
                           ELSE DictGet(default, k))
           /\ (/\ signal.signal_type = "wave_hand"
               /\ override = Map(<< <<"speed", Str("fast")>> >>)) =>
                 /\ DictGet(payload, "speed") = Str("fast")
                 /\ DictGet(payload, "signalType") = Str("wave_hand")
                 /\ DictGet(payload, "timestamp") =
                       Str(isoformat(signal.timestamp))

\* A payload has been built from a signal with data {confidence, mode} and an
\* override that holds a data mapping {mode}: the data of the payload is the
\* override's, without confidence.
C15_Witness ==
    /\ payload # NotBuilt
    /\ Keys(signal.data) = {"confidence", "mode"}
    /\ Keys(DictGet(OverrideOf(signal, commands), "data")) = {"mode"}
    /\ DictGet(payload, "data") = Map(<< <<"mode", Str("slow")>> >>)
    /\ DictGet(payload, "signalType") = Str(signal.signal_type)

\* The robots that were enabled in the registry when call c started.
EnabledAtStart(c) == {r \in RobotIds : task[c][r].enabled}

\* C16: the targets of a broadcast are exactly the robots that were enabled
\* when send_signal started.  While the call is in flight, whatever add_robot
\* and remove_robot have done to the registry since, each of those robots has
\* one task and gets at most one attempt, no other robot gets one, and no
\* task ends with an exception; the call returns None after one attempt to
\* each of them.
C16_TargetsAreSnapshot ==
    /\ \A c \in ServiceCallers :
          (fan[c].st = "gather" /\ fan[c].target = NoTarget) =>
             /\ fan[c].targets = EnabledAtStart(c)
             /\ \A r \in RobotIds :
                   /\ fan[c].att[r] <= 1
                   /\ r \in EnabledAtStart(c) <=> task[c][r].pc # "none"
                   /\ r \notin EnabledAtStart(c) =>
                         fan[c].att[r] = 0 /\ fan[c].res[r] = "none"
                   /\ fan[c].res[r] \in {"none", "pending", "true", "false"}
                   /\ fan[c].res[r] \in {"true", "false"} =>
                         fan[c].att[r] = 1
    /\ (report.target = NoTarget /\ report.caller \in ServiceCallers
           /\ ~report.warned) =>
          /\ report.ret = "None"
          /\ \A r \in RobotIds :
                /\ report.att[r] = (IF r \in report.targets THEN 1 ELSE 0)
                /\ r \in report.targets =>
                      report.res[r] \in {"true", "false"}

\* A broadcast that started when A was the one enabled robot has returned
\* after its attempt to A, although A has been removed and B added and
\* enabled while it was in flight.
C16_Witness ==
    /\ report.caller = ApiCaller
    /\ report.target = NoTarget
    /\ report.targets = {"A"}
    /\ report.att["A"] = 1
    /\ report.att["B"] = 0
    /\ report.ret = "None"
    /\ robots["A"] = "absent"
    /\ robots["B"] = "enabled"
    /\ fan[ApiCaller].st = "idle"

\* The dispatcher holds a cached handle that a deliver to a robot of
\* protocol proto would use for robot r.
CachedHandle(proto, r, ws, ser, client) ==
    \/ proto = "websocket" /\ ws[r] # 0
    \/ proto = "serial" /\ ser[r] # "none"
    \/ proto = "mqtt" /\ client # "None"

\* C17: whenever an attempt to a WebSocket, Serial or MQTT robot ends False
\* because connecting or sending failed, no cached handle for that robot
\* (its socket, its port, the shared MQTT client) is left afterwards.
C17_InvalidateOnError ==
    [][\A c \in ServiceCallers : \A r \in ServiceRobots :
          (/\ fan[c].res[r] = "pending"
           /\ fan'[c].res[r] = "false"
           /\ fan'[c].out[r] = "transport_failed")
          => ~CachedHandle(task[c][r].proto, r, websocket_connections',
                           serial_connections', mqtt_client')]_vars

\* The sockets websockets.connect has returned for robot r that nobody has
\* closed.
OpenSockets(r) ==
    {i \in 1..Len(sockets) : sockets[i].robot = r /\ sockets[i].st = "open"}

\* C18: at any time the dispatcher has at most one open WebSocket per robot,
\* and every open socket is the one the cache holds for its robot, also when
\* two send_signal calls deliver to the same robot while the cache has no
\* socket for it.
C18_OneLiveConnection ==
    \A r \in ServiceRobots :
       /\ Cardinality(OpenSockets(r)) <= 1
       /\ \A i \in OpenSockets(r) : websocket_connections[r] = i

\* Call c has delivered to MQTT robot r through the shared client, or is
\* inside the connect of it.
UsedMqttClient(c, r) ==
    /\ task[c][r].proto = "mqtt"
    /\ \/ fan[c].out[r] \in {"ok", "transport_failed"}
       \/ task[c][r].pc = "in_call"

\* C19: whatever number of MQTT robots and of concurrent send_signal calls
\* use the shared client while none exists, one client is made and one
\* connect is attempted: never a second of either, and exactly one of each
\* as soon as a delivery has used the client.
C19_OneMqttConnect ==
    /\ mqtt_created <= 1
    /\ mqtt_connects <= 1
    /\ mqtt_connects = mqtt_created
    /\ mqtt_client # "None" <=> mqtt_created = 1
    /\ \A c \in ServiceCallers : \A r \in ServiceRobots :
          UsedMqttClient(c, r) => mqtt_created = 1 /\ mqtt_connects = 1

\* Two send_signal calls in flight at once have each delivered to both MQTT
\* robots, after one connect.
C19_Witness ==
    /\ \A c \in ServiceCallers :
          /\ fan[c].st = "gather"
          /\ fan[c].targets = ServiceRobots
          /\ \A r \in ServiceRobots :
                UsedMqttClient(c, r) /\ fan[c].out[r] = "ok"
    /\ mqtt_client = "connected"
    /\ mqtt_connects = 1

\* The dispatcher holds no handle of robot r: no cached socket, no cached
\* port, and no open socket.
TornDown(r, ws, ser, socks) ==
    /\ ws[r] = 0
    /\ ser[r] = "none"
    /\ \A i \in 1..Len(socks) : socks[i].robot = r => socks[i].st = "closed"

\* C20: when the disconnect task that remove_robot(id) scheduled ends, the
\* cached WebSocket socket or Serial port of id has been closed and no cached
\* handle for id remains.
C20_RemoveTearsDown ==
    [][\A r \in ServiceRobots :
          (disconnects[r] \in {"scheduled", "closing"}
             /\ disconnects'[r] = "ran")
          => TornDown(r, websocket_connections', serial_connections',
                      sockets')]_vars

\* The body of a POST /api/robots request names no protocol, or lacks the
\* field its protocol requires.
Malformed(request) ==
    request.protocol \notin Protocols \/ ~request.complete

\* C21: a POST /api/robots whose configuration is malformed (an unknown
\* protocol, or the field its protocol requires missing) is answered with an
\* error, and the registry and robots.json are as they were.
C21_MalformedRejected ==
    [][(added'.n # added.n /\ Malformed(added')) =>
          /\ added'.status # 200
          /\ robots' = robots
          /\ protocol' = protocol
          /\ robots_file' = robots_file]_vars

\* C22: after any sequence of add_robot and remove_robot calls, robots.json
\* holds the registry that is in memory, also after a call whose write of
\* the file failed.
C22_FileIsRegistry ==
    robots_file = [robots |-> robots, protocol |-> protocol]

\* C23: the status of the actuator client is connected only while its
\* current socket is open: once the connection has ended (a read error, a
\* close by the peer, the message stream ending, a refused connect),
\* connected is False while connect() makes its next attempt and while it
\* waits to make it.
C23_ConnectedIsOpen ==
    clientPc \in {"connect", "sleep"} => ~connected

\* The calls of send_signal so far that were made while the client was not
\* connected.
RejectedCalls == {k \in 1..Len(sends) : ~sends[k].cn}

\* C24: a send_signal call made while the client is not connected returns
\* False and writes nothing, then or later: no message on a socket comes
\* from such a call, and every message that is on one comes from a call that
\* returned True.
C24_RejectedNeverWritten ==
    /\ \A k \in RejectedCalls : ~sends[k].result
    /\ \A w \in 1..Len(written) :
          /\ written[w].call \in 1..Len(sends)
          /\ written[w].call \notin RejectedCalls
          /\ sends[written[w].call].result
          /\ sends[written[w].call].sig = written[w].sig
    /\ Len(written) = Cardinality({k \in 1..Len(sends) : sends[k].result})

\* A call was rejected while connect() waited to retry; after the reconnect
\* the next call was written, and it is the only message on the socket.
C24_Witness ==
    /\ Len(sends) = 2
    /\ ~sends[1].cn /\ sends[1].at = "sleep" /\ ~sends[1].result
    /\ sends[1].sig = "wave"
    /\ sends[2].cn /\ sends[2].result /\ sends[2].sig = "home"
    /\ written = << [sig |-> "home", call |-> 2] >>
    /\ connected /\ websocket = "open"

\* C25: a send_signal call made while the client is connected returns False
\* and leaves connected = False when its write fails, and returns True,
\* with its message written and connected as it was, when the write
\* succeeds.
C25_WriteFailureDisconnects ==
    [][(Len(sends') = Len(sends) + 1 /\ connected /\ websocket # "None") =>
          LET call == sends'[Len(sends')]
          IN  /\ call.cn
              /\ call.result =>
                    /\ connected' = connected
                    /\ written' = Append(written, [sig |-> call.sig,
                                                   call |-> Len(sends')])
              /\ ~call.result => (~connected' /\ written' = written)]_vars

\* A call made while connected was written and returned True; the next one,
\* also made while connected, failed to write, returned False, and the
\* client is disconnected.
C25_Witness ==
    /\ Len(sends) = 2
    /\ sends[1].cn /\ sends[1].result
    /\ sends[2].cn /\ ~sends[2].result
    /\ Len(written) = 1
    /\ ~connected

\* C26: once disconnect() has returned, the client has no open connection,
\* connected is False, and connect() makes no further attempt, wherever
\* connect() was when disconnect() was called.
C26_ShutdownStable ==
    [][closing' = "done" =>
          /\ ~connected'
          /\ websocket' # "open"
          /\ (closing = "done" /\ clientPc # "connect") =>
                clientPc' # "connect"]_vars

\* C29: no inbound message changes the state of the actuator client:
\* whatever _keep_alive receives, it keeps reading on the same connection,
\* and connected and the socket are as they were.
C29_InboundChangesNothing ==
    [][received' # received =>
          /\ clientPc' = "keep_alive"
          /\ connected' = connected
          /\ websocket' = websocket]_vars

\* C27: without a disconnect the loop of connect() has no terminal state.
\* After a refused connect and after any other exception of the connect,
\* there is a wait and then a new attempt; after a read that failed or
\* ended, the new attempt follows at once; and if the endpoint accepts
\* connections from some point on, the client gets connected with an open
\* socket.
C27_AlwaysRetries ==
    /\ (clientPc = "sleep") ~> (clientPc = "connect")
    /\ (clientPc = "connect") ~> (clientPc \in {"welcome", "sleep"})
    /\ [][clientPc' # clientPc =>
             clientPc' = (CASE clientPc = "connect" ->
                                  IF websocket' = "open" /\ connected'
                                  THEN "welcome" ELSE "sleep"
                            [] clientPc = "sleep" -> "connect"
                            [] clientPc = "welcome" ->
                                  IF websocket' = "open" THEN "keep_alive"
                                  ELSE "sleep"
                            [] OTHER -> "connect")]_vars
    /\ accepting ~> (connected /\ websocket = "open")

\* A read has failed on a message that ended _keep_alive, and the client is
\* connected again on an open socket and reading.
C27_Witness ==
    /\ accepting
    /\ "not_object" \in {received[i] : i \in 1..Len(received)}
    /\ clientPc = "keep_alive"
    /\ connected
    /\ websocket = "open"

\* C28: against an endpoint that refuses every connection, connect() starts
\* with an attempt and a wait of reconnect_interval lies between any two
\* attempts, and every send_signal call made meanwhile returns False and
\* writes nothing.
C28_WaitsBetweenAttempts ==
    /\ \A i \in 1..Len(loop) :
          loop[i] = (IF i % 2 = 1 THEN "attempt" ELSE "wait")
    /\ clientPc = (IF Len(loop) % 2 = 1 THEN "sleep" ELSE "connect")
    /\ \A k \in 1..Len(sends) : ~sends[k].result
    /\ written = <<>>
    /\ ~connected

\* Three attempts were refused, with a wait after the first and after the
\* second; a call made during a wait and one made during an attempt both
\* returned False.
C28_Witness ==
    /\ Len(loop) >= 5
    /\ Len(sends) = 2
    /\ sends[1].at = "sleep" /\ ~sends[1].result
    /\ sends[2].at = "connect" /\ ~sends[2].result

\* C30: the socket of a WebSocket robot is opened lazily and reused.  No
\* socket exists before the first send_signal call, whatever the registry
\* was loaded with; a socket is opened only by a delivery to its robot that
\* found no socket cached, never by add_robot; a delivery that finds one
\* cached sends on it without a connect; and deliveries that follow one
\* another leave at most one open socket per robot.
C30_LazyAndReused ==
    [][/\ calls = 0 => sockets = <<>>
       /\ \A r \in ServiceRobots : Cardinality(OpenSockets(r)) <= 1
       /\ Len(sockets') > Len(sockets) =>
             \E r \in ServiceRobots :
                /\ task[ApiCaller][r].pc = "ws_connect"
                /\ websocket_connections[r] = 0
                /\ sockets' = Append(sockets, [robot |-> r, st |-> "open"])
                /\ websocket_connections'[r] = Len(sockets')
       /\ \A r \in ServiceRobots :
             (/\ task[ApiCaller][r].pc = "ready"
              /\ task'[ApiCaller][r].pc \notin {"ready", "done"}) =>
                IF websocket_connections[r] = 0
                THEN task'[ApiCaller][r].pc = "ws_connect"
                ELSE /\ task'[ApiCaller][r].pc = "ws_send"
                     /\ task'[ApiCaller][r].ws = websocket_connections[r]
       /\ \A r \in ServiceRobots :
             (fan[ApiCaller].out[r] # "ok" /\ fan'[ApiCaller].out[r] = "ok") =>
                /\ sockets' = sockets
                /\ task[ApiCaller][r].ws = websocket_connections[r]
                /\ sockets[task[ApiCaller][r].ws] =
                      [robot |-> r, st |-> "open"]]_vars

\* Two send_signal calls, one after the other, have delivered to A: one
\* socket was opened, it is open and cached for A, and B, which is in the
\* registry, has none.
C30_Witness ==
    /\ calls = 2
    /\ fan[ApiCaller].st = "idle"
    /\ report.targets = {"A"}
    /\ report.out["A"] = "ok"
    /\ sockets = << [robot |-> "A", st |-> "open"] >>
    /\ websocket_connections["A"] = 1
    /\ robots["B"] = "enabled"
    /\ websocket_connections["B"] = 0


\* A _send_serial step of call c for robot r that had a port (cached, or
\* opened by this step) and returned False from its except branch.
SerialWriteFailed(c, r) ==
    /\ task[c][r].proto = "serial"
    /\ task[c][r].pc = "ready"
    /\ task'[c][r].pc = "done"
    /\ fan'[c].out[r] = "transport_failed"
    /\ \/ serial_connections[r] = "open"
       \/ serial_ports'[r] > serial_ports[r]

\* C31: when a Serial write or flush fails, the delivery returns false and
\* the cached port is both closed and removed from the cache: no Serial
\* object of that robot is left that the service opened and did not close.
C31_FailedWriteClosesPort ==
    [][\A c \in ServiceCallers, r \in ServiceRobots :
          SerialWriteFailed(c, r) =>
             /\ fan'[c].res[r] = "false"
             /\ serial_connections'[r] = "none"
             /\ serial_ports'[r] = 0]_vars


\* The last send_signal call got past the guard and its write raised, and
\* connected is still False.
WriteFailed ==
    /\ Len(sends) > 0
    /\ sends[Len(sends)].cn
    /\ ~sends[Len(sends)].result
    /\ ~connected

C33_WaitBeforeEveryRetry ==
    \A i \in 1..(Len(loop) - 1) :
       loop[i] = "attempt" => loop[i + 1] = "wait"


\* C34: the worker is cancelled between motion steps: it sends no motion
\* command while celebrate_stop_event is set, and none after
\* stop_celebrating_and_exit has sent the exit pose of that stop, so the
\* worker and the exit sequence never command the arm concurrently.
C34_WorkerStopsBetweenSteps ==
    /\ \A i \in 1..Len(arm) : arm[i].by = "worker" => ~arm[i].stopped
    /\ \A i, j \in 1..Len(arm) :
          (i < j /\ arm[i].cmd = "exit_pose" /\ arm[j].by = "worker")
             => ~arm[j].stopped

\* C35: after start_celebrating the worker repeats the celebrate gesture,
\* cycle after cycle, for as long as no stop is requested: the thread ends
\* only after stop_celebrating_and_exit has set the event.
C35_CelebratesUntilStopped ==
    workerPc = "ended" => celebrate_stop_event


\* The last request before request n that detected nobody, 0 without one:
\* the visit that request n ends began after it.
LastAbsence(n) ==
    LET absent == {k \in 1..(n - 1) : trace[k] = "false"}
    IN  IF absent = {} THEN 0
        ELSE CHOOSE k \in absent : \A j \in absent : j <= k

\* C36: LEFT_AFTER_SPEECH is emitted for a departure only if mark_spoken was
\* called during that same visit, after the request that detected the
\* person entering and before the request that detected the departure; a
\* mark_spoken made while nobody is present causes no LEFT_AFTER_SPEECH on a
\* later visit.
C36_SpeechOfSameVisit ==
    \A i \in 1..Len(events) :
       events[i][2] = LEFT_AFTER_SPEECH =>
          \E m, k \in (LastAbsence(events[i][1]) + 1)..(events[i][1] - 1) :
             /\ m < k
             /\ trace[m] = "true"
             /\ trace[k] = "mark"


\* The _send_mqtt step of call c for robot r that published the payload.
MqttPublished(c, r) ==
    /\ task[c][r].proto = "mqtt"
    /\ task[c][r].pc = "ready"
    /\ task'[c][r].pc = "done"
    /\ fan'[c].out[r] = "ok"

\* C37: an MQTT delivery for robot R publishes through a client that was
\* connected to R's own broker and port and authenticated with R's
\* credentials, also when several MQTT robots with different brokers or
\* credentials are configured and another robot triggered the first connect.
C37_PublishedToOwnBroker ==
    [][\A c \in ServiceCallers, r \in ServiceRobots :
          MqttPublished(c, r) => handle_to'.mqtt = task[c][r].params]_vars


\* The step of call c that wrote the payload for robot r to its socket or
\* its port.
HandleWritten(c, r) ==
    /\ \/ task[c][r].proto = "websocket" /\ task[c][r].pc = "ws_send"
       \/ task[c][r].proto = "serial" /\ task[c][r].pc = "ready"
    /\ task'[c][r].pc = "done"
    /\ fan'[c].out[r] = "ok"

\* C38: a delivery writes to a handle that is connected to the url or the
\* serial_port of the configuration the delivery was given, so after
\* add_robot has replaced the configuration of an id, the next delivery to
\* that id uses the new parameters and not a handle that was cached for the
\* replaced configuration.
C38_DeliveryUsesNewConfig ==
    [][\A r \in ServiceRobots :
          HandleWritten(ApiCaller, r) =>
             handle_to'[task[ApiCaller][r].proto][r]
                = task[ApiCaller][r].params]_vars


\* C39: every connect attempt dials ws://host:port for the host and port the
\* client holds at that time, which are the ones the status operation
\* reports, also after startup has overridden them from MYCOBOT_HOST and
\* MYCOBOT_PORT.
C39_DialsReportedEndpoint ==
    [][(clientPc = "connect" /\ clientPc' # "connect") =>
          uri = Uri(MycobotStatus.host, MycobotStatus.port)]_vars


\* C40: every signal type the presence logic sends to the myCobot
\* (go_to_celebrate_pose, wave_hand, hold_and_home, each with empty data) is
\* accepted by a server with a working arm: it is answered with a response
\* whose result has status success, never with an error reply.
C40_PresenceSignalsAccepted ==
    (/\ server_in.signal_type \in PresenceSignals
     /\ server_in.attached
     /\ ~server_in.raises)
       => /\ server_reply.type = "response"
          /\ server_reply.result.status = "success"

=============================================================================
